---------------------------- MODULE Spec2Model ----------------------------
(***************************************************************************)
(* Topic Starter plugin (astrbot_plugin_topic_starter).                    *)
(*                                                                         *)
(* The plugin runs inside one asyncio event loop: one long-lived scheduler *)
(* task plus short-lived command tasks, interleaved only at `await`.       *)
(* Every action below is one run-to-completion segment of one task: the    *)
(* pending await returns (a key-value read or write takes effect, a host   *)
(* call answers) and the task's code runs on to its next await.  The       *)
(* task's pc names the await it is suspended in.  get_kv hands back a copy *)
(* of the stored document (the host keeps it serialised), so a bucket held *)
(* across an await is a private snapshot.                                  *)
(*                                                                         *)
(* Time is in whole seconds of time.time(); texts are modelled by their    *)
(* length in characters; a random.random() value is modelled in permille   *)
(* (0..999 stands for [0,1)) and probabilities in permille (0..1000).      *)
(***************************************************************************)
EXTENDS Integers, Sequences, FiniteSets, TLC

\* ------------------------------------------------------------------ bounds
MaxOrigins == 2
MaxCmdTasks == 2
MaxCommands == 2
MaxAdvances == 1
MaxTopics == 2

\* ------------------------------------------------------- program constants
MinTickInterval == 60
MinMessageChars == 20
MinutesPerDay == 1440
DefaultQuietStart == 1380
DefaultQuietEnd == 480

\* ---------------------------------------------------------------- helpers
Min(a, b) == IF a <= b THEN a ELSE b
Max(a, b) == IF a >= b THEN a ELSE b

NoOrigin == 0
NoTask == -1
NullId == 0
Sched == 0
Origins == 1..MaxOrigins
CmdTasks == 1..MaxCmdTasks
Tasks == {Sched} \cup CmdTasks

VARIABLES
    clock,         \* time.time(), whole seconds
    config,        \* PluginSettings resolved from self.config
    streamsDoc,    \* KV document "streams": items, origin -> stream record
    topicsDoc,     \* KV document "topics": [next_id, items: id -> topic record]
    messagesDoc,   \* KV document "messages": items, origin -> list of snapshots
    tick_lock,     \* self._tick_lock: the task holding it, or NoTask
    lock_waiters,  \* asyncio.Lock._waiters, FIFO
    tk,            \* per task: pc (pending await) and local variables
    outbox,        \* messages the transport accepted (context.send_message)
    started,       \* number of command handlers invoked so far
    call,          \* arguments of a pure-function call under check
    ret,           \* its result
    shutdown_event,  \* self._shutdown_event.is_set()
    errors_logged    \* number of "scheduler tick failed" lines logged

kv == <<streamsDoc, topicsDoc, messagesDoc>>
lock == <<tick_lock, lock_waiters>>
pure == <<call, ret>>
loop == <<shutdown_event, errors_logged>>
vars == <<clock, config, streamsDoc, topicsDoc, messagesDoc, tick_lock,
          lock_waiters, tk, outbox, started, call, ret, shutdown_event, errors_logged>>

\* ------------------------------------------------------------ quiet hours
\* is_active with the window that wraps past midnight joined by "and"
is_active_wrap_and(quiet_hours, current) ==
    IF ~quiet_hours.enabled THEN FALSE
    ELSE IF quiet_hours.start_minutes = quiet_hours.end_minutes THEN TRUE
    ELSE IF quiet_hours.start_minutes < quiet_hours.end_minutes
         THEN quiet_hours.start_minutes <= current /\ current < quiet_hours.end_minutes
    ELSE current >= quiet_hours.start_minutes /\ current < quiet_hours.end_minutes

\* QuietHours.is_active, with current = moment.hour * 60 + moment.minute
is_active(quiet_hours, current) ==
    IF ~quiet_hours.enabled THEN FALSE
    ELSE IF quiet_hours.start_minutes = quiet_hours.end_minutes THEN TRUE
    ELSE IF quiet_hours.start_minutes < quiet_hours.end_minutes
         THEN quiet_hours.start_minutes <= current /\ current < quiet_hours.end_minutes
    ELSE current >= quiet_hours.start_minutes \/ current < quiet_hours.end_minutes

\* datetime.fromtimestamp(now): hour * 60 + minute of the epoch second (host
\* clock on UTC)
MinuteOfDay(now) == (now \div 60) % MinutesPerDay


\* -------------------------------------------------------- decision engine
InitiationDecision(should_send, reason, draws) ==
    [should_send |-> should_send, reason |-> reason, draws |-> draws]

\* should_initiate with the quiet-hours gate applied to forced calls too
should_initiate_quiet_blocks_force(stream, settings, now, force, random_value) ==
    IF ~settings.enabled
        THEN InitiationDecision(FALSE, "plugin_disabled", 0)
    ELSE IF ~stream.active
        THEN InitiationDecision(FALSE, "stream_inactive", 0)
    ELSE IF is_active(settings.quiet_hours, MinuteOfDay(now))
        THEN InitiationDecision(FALSE, "quiet_hours", 0)
    ELSE IF force
        THEN InitiationDecision(TRUE, "force", 0)
    ELSE IF stream.last_bot_initiate_ts > 0
            /\ (now - stream.last_bot_initiate_ts) < settings.cooldown_seconds
        THEN InitiationDecision(FALSE, "cooldown", 0)
    ELSE IF stream.last_user_message_ts > 0
            /\ (now - stream.last_user_message_ts) < settings.silence_seconds
        THEN InitiationDecision(FALSE, "conversation_active", 0)
    ELSE IF random_value >= settings.trigger_probability
        THEN InitiationDecision(FALSE, "random_gate", 1)
    ELSE InitiationDecision(TRUE, "ready", 1)

\* should_initiate with the silence gate tested before the cooldown gate
should_initiate_silence_first(stream, settings, now, force, random_value) ==
    IF ~settings.enabled
        THEN InitiationDecision(FALSE, "plugin_disabled", 0)
    ELSE IF ~stream.active
        THEN InitiationDecision(FALSE, "stream_inactive", 0)
    ELSE IF is_active(settings.quiet_hours, MinuteOfDay(now)) /\ ~force
        THEN InitiationDecision(FALSE, "quiet_hours", 0)
    ELSE IF force
        THEN InitiationDecision(TRUE, "force", 0)
    ELSE IF stream.last_user_message_ts > 0
            /\ (now - stream.last_user_message_ts) < settings.silence_seconds
        THEN InitiationDecision(FALSE, "conversation_active", 0)
    ELSE IF stream.last_bot_initiate_ts > 0
            /\ (now - stream.last_bot_initiate_ts) < settings.cooldown_seconds
        THEN InitiationDecision(FALSE, "cooldown", 0)
    ELSE IF random_value >= settings.trigger_probability
        THEN InitiationDecision(FALSE, "random_gate", 1)
    ELSE InitiationDecision(TRUE, "ready", 1)

\* should_initiate with an inclusive cooldown comparison (<=)
should_initiate_cooldown_inclusive(stream, settings, now, force, random_value) ==
    IF ~settings.enabled
        THEN InitiationDecision(FALSE, "plugin_disabled", 0)
    ELSE IF ~stream.active
        THEN InitiationDecision(FALSE, "stream_inactive", 0)
    ELSE IF is_active(settings.quiet_hours, MinuteOfDay(now)) /\ ~force
        THEN InitiationDecision(FALSE, "quiet_hours", 0)
    ELSE IF force
        THEN InitiationDecision(TRUE, "force", 0)
    ELSE IF stream.last_bot_initiate_ts > 0
            /\ (now - stream.last_bot_initiate_ts) <= settings.cooldown_seconds
        THEN InitiationDecision(FALSE, "cooldown", 0)
    ELSE IF stream.last_user_message_ts > 0
            /\ (now - stream.last_user_message_ts) < settings.silence_seconds
        THEN InitiationDecision(FALSE, "conversation_active", 0)
    ELSE IF random_value >= settings.trigger_probability
        THEN InitiationDecision(FALSE, "random_gate", 1)
    ELSE InitiationDecision(TRUE, "ready", 1)

\* should_initiate with an inclusive silence comparison (<=)
should_initiate_silence_inclusive(stream, settings, now, force, random_value) ==
    IF ~settings.enabled
        THEN InitiationDecision(FALSE, "plugin_disabled", 0)
    ELSE IF ~stream.active
        THEN InitiationDecision(FALSE, "stream_inactive", 0)
    ELSE IF is_active(settings.quiet_hours, MinuteOfDay(now)) /\ ~force
        THEN InitiationDecision(FALSE, "quiet_hours", 0)
    ELSE IF force
        THEN InitiationDecision(TRUE, "force", 0)
    ELSE IF stream.last_bot_initiate_ts > 0
            /\ (now - stream.last_bot_initiate_ts) < settings.cooldown_seconds
        THEN InitiationDecision(FALSE, "cooldown", 0)
    ELSE IF stream.last_user_message_ts > 0
            /\ (now - stream.last_user_message_ts) <= settings.silence_seconds
        THEN InitiationDecision(FALSE, "conversation_active", 0)
    ELSE IF random_value >= settings.trigger_probability
        THEN InitiationDecision(FALSE, "random_gate", 1)
    ELSE InitiationDecision(TRUE, "ready", 1)

\* InitiationDecisionEngine.should_initiate.  random_value is what
\* self._random_provider() returns if it is called; draws counts its calls.
should_initiate(stream, settings, now, force, random_value) ==
    IF ~settings.enabled
        THEN InitiationDecision(FALSE, "plugin_disabled", 0)
    ELSE IF ~stream.active
        THEN InitiationDecision(FALSE, "stream_inactive", 0)
    ELSE IF is_active(settings.quiet_hours, MinuteOfDay(now)) /\ ~force
        THEN InitiationDecision(FALSE, "quiet_hours", 0)
    ELSE IF force
        THEN InitiationDecision(TRUE, "force", 0)
    ELSE IF stream.last_bot_initiate_ts > 0
            /\ (now - stream.last_bot_initiate_ts) < settings.cooldown_seconds
        THEN InitiationDecision(FALSE, "cooldown", 0)
    ELSE IF stream.last_user_message_ts > 0
            /\ (now - stream.last_user_message_ts) < settings.silence_seconds
        THEN InitiationDecision(FALSE, "conversation_active", 0)
    ELSE IF random_value >= settings.trigger_probability
        THEN InitiationDecision(FALSE, "random_gate", 1)
    ELSE InitiationDecision(TRUE, "ready", 1)


\* --------------------------------------------------------------- settings
\* A text is modelled as the sequence of its characters; Text(n) is a text of
\* n ordinary characters.
Text(n) == [i \in 1..n |-> "x"]
Bar == "|"
FullWidthBar == "fw"
Space == " "
FallbackLine(title_len, desc_len) == Text(title_len) \o <<Bar>> \o Text(desc_len)

\* main.py DEFAULT_FALLBACK_TOPICS: four "title|description" lines
DEFAULT_FALLBACK_TOPICS ==
    << FallbackLine(18, 16), FallbackLine(13, 13),
       FallbackLine(16, 7), FallbackLine(22, 7) >>

QuietHours(enabled, start_minutes, end_minutes) ==
    [enabled |-> enabled, start_minutes |-> start_minutes, end_minutes |-> end_minutes]

\* PluginSettings as from_config returns it (the fields the orchestrator reads)
PluginSettings(enabled, trigger_probability, cooldown_seconds, silence_seconds, chat_provider_id, quiet_hours) ==
    [enabled |-> enabled,
     tick_interval_seconds |-> MinTickInterval,
     trigger_probability |-> trigger_probability,
     cooldown_seconds |-> cooldown_seconds,
     silence_seconds |-> silence_seconds,
     message_window_size |-> 2,
     max_message_chars |-> MinMessageChars,
     chat_provider_id |-> chat_provider_id,
     fallback_topics |-> << >>,
     quiet_hours |-> quiet_hours]

\* The settings as from_config returns them, without the built-in lines
_settings_as_configured == config

\* TopicStarterPlugin._settings: the resolved settings, with the built-in
\* fallback lines when the configuration gives none
_settings ==
    IF config.fallback_topics = << >>
    THEN [config EXCEPT !.fallback_topics = DEFAULT_FALLBACK_TOPICS]
    ELSE config

\* The configurations the plugin is run under: the plugin enabled with the
\* provider looked up per conversation, enabled inside quiet hours with a
\* configured provider, and disabled
MainConfigs ==
    { PluginSettings(TRUE, 500, 120, 1, "", QuietHours(FALSE, DefaultQuietStart, DefaultQuietEnd)),
      PluginSettings(TRUE, 500, 120, 1, "provider", QuietHours(TRUE, DefaultQuietStart, DefaultQuietEnd)),
      PluginSettings(FALSE, 500, 120, 1, "", QuietHours(FALSE, DefaultQuietStart, DefaultQuietEnd)) }

\* Sample values of random.random(), permille
RandomSamples == {0, 499, 500, 999}


\* ---------------------------------------------------- persistence adapter
\* dict[key] = value and dict.pop(key, None) on an "items" mapping
PutItem(items, key, value) ==
    [k \in (DOMAIN items) \cup {key} |-> IF k = key THEN value ELSE items[k]]
RemoveItem(items, key) == [k \in (DOMAIN items) \ {key} |-> items[k]]

\* All orderings of a finite set
Orderings(S) ==
    { s \in [1..Cardinality(S) -> S] : \A i, j \in 1..Cardinality(S) : i # j => s[i] # s[j] }

\* bind_stream without `old`: every bind writes a fresh record
bind_stream_fresh(items, unified_msg_origin, ts) ==
    PutItem(items, unified_msg_origin,
        [active |-> TRUE, last_user_message_ts |-> ts, last_bot_initiate_ts |-> 0,
         created_at |-> ts, updated_at |-> ts])

\* AstrBotKVStore.bind_stream: the items mapping it writes back
bind_stream(items, unified_msg_origin, ts) ==
    LET had == unified_msg_origin \in DOMAIN items
        old == items[unified_msg_origin]
    IN  PutItem(items, unified_msg_origin,
            [active |-> TRUE,
             last_user_message_ts |-> IF had THEN old.last_user_message_ts ELSE ts,
             last_bot_initiate_ts |-> IF had THEN old.last_bot_initiate_ts ELSE 0,
             created_at |-> IF had THEN old.created_at ELSE ts,
             updated_at |-> ts])

\* AstrBotKVStore.deactivate_stream, for an origin that has a record
deactivate_stream(items, unified_msg_origin, ts) ==
    [items EXCEPT ![unified_msg_origin].active = FALSE,
                  ![unified_msg_origin].updated_at = ts]

\* AstrBotKVStore.touch_user_message, for an origin that has a record
touch_user_message(items, unified_msg_origin, ts) ==
    [items EXCEPT ![unified_msg_origin].last_user_message_ts = ts,
                  ![unified_msg_origin].updated_at = ts]

\* AstrBotKVStore.mark_bot_initiated, for an origin that has a record
mark_bot_initiated(items, unified_msg_origin, ts) ==
    [items EXCEPT ![unified_msg_origin].last_bot_initiate_ts = ts,
                  ![unified_msg_origin].updated_at = ts]

\* AstrBotKVStore._to_stream_target: the StreamTarget built from a stored record
_to_stream_target(items, unified_msg_origin) ==
    [unified_msg_origin |-> unified_msg_origin,
     active |-> items[unified_msg_origin].active,
     last_user_message_ts |-> items[unified_msg_origin].last_user_message_ts,
     last_bot_initiate_ts |-> items[unified_msg_origin].last_bot_initiate_ts,
     updated_at |-> items[unified_msg_origin].updated_at]

\* list_active_streams without `and target.active`: every record is returned
list_active_streams_all(items) ==
    LET all == DOMAIN items
    IN  { [i \in 1..Cardinality(all) |-> _to_stream_target(items, s[i])] :
            s \in { p \in Orderings(all) :
                      \A i, j \in 1..Cardinality(all) :
                          i < j => items[p[i]].updated_at >= items[p[j]].updated_at } }

\* AstrBotKVStore.list_active_streams: the active records, newest updated_at
\* first.  Records with equal updated_at keep the dict's insertion order, which
\* the model does not track: every order of such ties is a possible result.
list_active_streams(items) ==
    LET active == { o \in DOMAIN items : items[o].active }
    IN  { [i \in 1..Cardinality(active) |-> _to_stream_target(items, s[i])] :
            s \in { p \in Orderings(active) :
                      \A i, j \in 1..Cardinality(active) :
                          i < j => items[p[i]].updated_at >= items[p[j]].updated_at } }

\* TopicStarterPlugin._streams_for_tick: the possible candidate lists
_streams_for_tick(items, target_umo) ==
    IF target_umo # NoOrigin
    THEN IF target_umo \in DOMAIN items /\ items[target_umo].active
         THEN { << _to_stream_target(items, target_umo) >> }
         ELSE { << >> }
    ELSE list_active_streams(items)

\* AstrBotKVStore.create_topic: the bucket it writes back; it returns
\* bucket.next_id.  A draft made by /topic_create has priority 1 and is enabled.
create_topic(bucket, draft, ts) ==
    [next_id |-> bucket.next_id + 1,
     items |-> PutItem(bucket.items, bucket.next_id,
                  [id |-> bucket.next_id,
                   title_len |-> draft.title_len,
                   desc_len |-> draft.desc_len,
                   priority |-> Max(draft.priority, 1),
                   enabled |-> draft.enabled,
                   use_count |-> 0,
                   last_used_at |-> 0,
                   created_at |-> ts,
                   updated_at |-> ts])]

\* AstrBotKVStore.delete_topic: the bucket it writes back
delete_topic(bucket, topic_id) ==
    [bucket EXCEPT !.items = RemoveItem(bucket.items, topic_id)]

\* AstrBotKVStore.mark_topic_used, for a topic that has a record
mark_topic_used(bucket, topic_id, ts) ==
    [bucket EXCEPT !.items[topic_id].use_count = @ + 1,
                   !.items[topic_id].last_used_at = ts,
                   !.items[topic_id].updated_at = ts]

\* AstrBotKVStore.list_topics: the (enabled) records sorted by (-priority, id)
list_topics(bucket, enabled_only) ==
    LET ids == { i \in DOMAIN bucket.items : ~enabled_only \/ bucket.items[i].enabled }
        before(a, b) ==
            \/ bucket.items[a].priority > bucket.items[b].priority
            \/ bucket.items[a].priority = bucket.items[b].priority /\ a < b
        order == CHOOSE p \in Orderings(ids) :
                    \A i, j \in 1..Cardinality(ids) : i < j => before(p[i], p[j])
    IN  [i \in 1..Cardinality(ids) |-> bucket.items[order[i]]]

\* sorted(queue, key=created_at, reverse=True): a stable sort, newest first
RECURSIVE SortNewestFirst(_)
SortNewestFirst(queue) ==
    IF queue = << >> THEN << >>
    ELSE LET rest == SortNewestFirst(Tail(queue))
             head == Head(queue)
             \* stable: head goes after the strictly newer elements of rest
             \* and before those of equal created_at
             k == Cardinality({ i \in 1..Len(rest) : rest[i].created_at > head.created_at })
         IN  SubSeq(rest, 1, k) \o << head >> \o SubSeq(rest, k + 1, Len(rest))

\* queue[:limit]
Take(queue, limit) == SubSeq(queue, 1, Min(Len(queue), limit))

\* append_message as a plain queue: the last `limit` snapshots in arrival order
append_message_fifo(items, unified_msg_origin, snapshot, max_records) ==
    LET queue == IF unified_msg_origin \in DOMAIN items
                 THEN items[unified_msg_origin] ELSE << >>
        all == Append(queue, snapshot)
    IN  PutItem(items, unified_msg_origin,
            SubSeq(all, Max(Len(all) - Max(max_records, 1), 0) + 1, Len(all)))

\* AstrBotKVStore.append_message: the items mapping it writes back
append_message(items, unified_msg_origin, snapshot, max_records) ==
    LET queue == IF unified_msg_origin \in DOMAIN items
                 THEN items[unified_msg_origin] ELSE << >>
    IN  PutItem(items, unified_msg_origin,
            Take(SortNewestFirst(Append(queue, snapshot)), Max(max_records, 1)))

\* AstrBotKVStore.list_recent_messages
list_recent_messages(items, unified_msg_origin, limit) ==
    LET queue == IF unified_msg_origin \in DOMAIN items
                 THEN items[unified_msg_origin] ELSE << >>
    IN  Take(SortNewestFirst(queue), Max(limit, 1))

\* -------------------------------------------------------- topic selection
SecondsPerDay == 86400
\* pick_topic returning None
NoTopic == [found |-> FALSE, topic_id |-> NullId, title_len |-> 0, desc_len |-> 0]
NoContent == [source |-> "none", len |-> 0]

\* str.strip() on a text
RECURSIVE LStrip(_)
LStrip(s) == IF s # << >> /\ Head(s) = Space THEN LStrip(Tail(s)) ELSE s
RECURSIVE RStrip(_)
RStrip(s) ==
    IF s # << >> /\ s[Len(s)] = Space THEN RStrip(SubSeq(s, 1, Len(s) - 1)) ELSE s
Strip(s) == RStrip(LStrip(s))

Contains(s, c) == \E i \in 1..Len(s) : s[i] = c
FirstIndex(s, c) ==
    CHOOSE i \in 1..Len(s) : s[i] = c /\ \A j \in 1..(i - 1) : s[j] # c

TopicSeed(title, description) ==
    [found |-> TRUE, title |-> title, description |-> description]
NoSeed == [found |-> FALSE, title |-> << >>, description |-> << >>]

\* A split at the last occurrence of the delimiter (stripped.rsplit)
SplitOnLast(stripped, delimiter) ==
    LET i == CHOOSE i \in 1..Len(stripped) :
                stripped[i] = delimiter /\ \A j \in (i + 1)..Len(stripped) : stripped[j] # delimiter
    IN  TopicSeed(Strip(SubSeq(stripped, 1, i - 1)),
                  Strip(SubSeq(stripped, i + 1, Len(stripped))))

\* stripped.split(delimiter, 1), both parts stripped
SplitOnFirst(stripped, delimiter) ==
    LET i == FirstIndex(stripped, delimiter)
    IN  TopicSeed(Strip(SubSeq(stripped, 1, i - 1)),
                  Strip(SubSeq(stripped, i + 1, Len(stripped))))

\* TopicSelectionService._parse_fallback_line
_parse_fallback_line(line) ==
    LET stripped == Strip(line)
        splits(d) == Contains(stripped, d)
                     /\ SplitOnFirst(stripped, d).title # << >>
                     /\ SplitOnFirst(stripped, d).description # << >>
    IN  IF stripped = << >> THEN NoSeed
        ELSE IF splits(Bar) THEN SplitOnFirst(stripped, Bar)
        ELSE IF splits(FullWidthBar) THEN SplitOnFirst(stripped, FullWidthBar)
        ELSE TopicSeed(stripped, << >>)

SelectedTopic(topic_id, title_len, desc_len) ==
    [found |-> TRUE, topic_id |-> topic_id, title_len |-> title_len, desc_len |-> desc_len]

\* The weight without the cap on the freshness boost
TopicWeight_uncapped(topic, now) ==
    LET staleness_seconds ==
            IF topic.last_used_at # 0 THEN Max(now - topic.last_used_at, 0)
            ELSE SecondsPerDay
    IN  Max(topic.priority, 1) * (SecondsPerDay + staleness_seconds)

\* pick_topic's weight of one topic, in units of 1/86400 (integer arithmetic):
\* max(priority, 1) * (1.0 + min(staleness_hours / 24.0, 2.0))
TopicWeight(topic, now) ==
    LET staleness_seconds ==
            IF topic.last_used_at # 0 THEN Max(now - topic.last_used_at, 0)
            ELSE SecondsPerDay
    IN  Max(topic.priority, 1) * (SecondsPerDay + Min(staleness_seconds, 2 * SecondsPerDay))

\* acc after the first n topics of the walk
RECURSIVE CumulativeWeight(_, _, _)
CumulativeWeight(topics, now, n) ==
    IF n = 0 THEN 0
    ELSE CumulativeWeight(topics, now, n - 1) + TopicWeight(topics[n], now)

\* A walk that never breaks: the choice stays weighted_topics[-1]
pick_topic_no_break(topics, fallback_lines, now, random_value) ==
    IF topics # << >>
    THEN LET choice == topics[Len(topics)]
         IN  SelectedTopic(choice.id, choice.title_len, choice.desc_len)
    ELSE NoTopic

\* TopicSelectionService.pick_topic.  random_value (permille) is the one
\* random number the call consumes: random.random() of the weighted draw, or
\* the position random.choice takes among the parsed fallback lines.
pick_topic(topics, fallback_lines, now, random_value) ==
    IF topics # << >>
    THEN LET total == CumulativeWeight(topics, now, Len(topics))
             hit(i) == random_value * total <= 1000 * CumulativeWeight(topics, now, i)
             choice == IF total <= 0 THEN topics[1]
                       ELSE IF \E i \in 1..Len(topics) : hit(i)
                            THEN topics[CHOOSE i \in 1..Len(topics) :
                                    hit(i) /\ \A j \in 1..(i - 1) : ~hit(j)]
                            ELSE topics[Len(topics)]
         IN  SelectedTopic(choice.id, choice.title_len, choice.desc_len)
    ELSE LET parsed == [i \in 1..Len(fallback_lines) |-> _parse_fallback_line(fallback_lines[i])]
             IsSeed(seed) == seed.found
             candidates == SelectSeq(parsed, IsSeed)
         IN  IF candidates = << >> THEN NoTopic
             ELSE LET seed == candidates[(random_value * Len(candidates)) \div 1000 + 1]
                  IN  SelectedTopic(NullId, Len(seed.title), Len(seed.description))

\* ------------------------------------------------------ content rendering
\* ContentRenderingService.render_fallback_content: the length of its text.
\* recent_dialogue holds the lengths of the "sender: content" lines.
render_fallback_content(topic, recent_dialogue) ==
    LET described == IF topic.desc_len > 0 THEN 1 + topic.desc_len ELSE 0
    IN  IF recent_dialogue # << >>
        THEN 9 + Min(recent_dialogue[1], 40) + 4 + 8 + topic.title_len + described
        ELSE 7 + topic.title_len + described + 1 + 6

\* A truncation that lets a long text through
_truncate_text_uncut(text_len, max_chars) ==
    IF max_chars <= 0 THEN 0 ELSE text_len

\* TopicStarterPlugin._truncate_text on a text of the given length
_truncate_text(text_len, max_chars) ==
    IF max_chars <= 0 THEN 0
    ELSE IF text_len <= max_chars THEN text_len
    ELSE max_chars

Content(source, len) == [source |-> source, len |-> len]

\* ------------------------------------------------------------------ tasks

\* A task that is not running: a free command slot
IdleTask ==
    [pc |-> "idle", cmd |-> "none", umo |-> NoOrigin, now |-> 0,
     force |-> FALSE, target |-> NoOrigin, bucket |-> << >>,
     streams |-> << >>, topics |-> << >>, idx |-> 0,
     sent_count |-> 0, reasons |-> << >>,
     selected |-> NoTopic, fallback_text |-> 0,
     content |-> NoContent, deadline |-> 0, topic_id |-> NullId]

\* The scheduler task as __init__ creates it: _scheduler_loop not yet run
SchedulerTask == [IdleTask EXCEPT !.pc = "start", !.cmd = "scheduler"]

NoCall == [fn |-> "none"]
NoRet == [done |-> FALSE]

\* TopicDraft(title, description) as _parse_topic_payload builds it
Draft == [title_len |-> 2, desc_len |-> 3, priority |-> 1, enabled |-> TRUE]

\* Nothing invoked yet, nothing sent
Parked ==
    /\ clock = 1
    /\ shutdown_event = FALSE
    /\ errors_logged = 0
    /\ tick_lock = NoTask
    /\ lock_waiters = << >>
    /\ outbox = << >>
    /\ started = 0

\* A fresh store
EmptyStore ==
    /\ streamsDoc = << >>
    /\ topicsDoc = [next_id |-> 1, items |-> << >>]
    /\ messagesDoc = << >>

\* The store an earlier run left behind: origin 1 bound by /topic_bind and one
\* topic made by /topic_create, both at second 1; no other origin was ever bound
SeededStore ==
    /\ streamsDoc = touch_user_message(bind_stream(<< >>, 1, 1), 1, 1)
    /\ topicsDoc = create_topic([next_id |-> 1, items |-> << >>], Draft, 1)
    /\ messagesDoc = << >>

\* State after TopicStarterPlugin.__init__
Init ==
    /\ Parked
    /\ SeededStore
    /\ config \in MainConfigs
    /\ tk = [t \in Tasks |-> IF t = Sched THEN SchedulerTask ELSE IdleTask]
    /\ call = NoCall
    /\ ret = NoRet

\* ------------------------------------------------------------ actions
Go(t, local) == tk' = [tk EXCEPT ![t] = local]

\* The program points of a command handler inside a store call
StoreCallPcs ==
    {"bind_get", "bind_put", "touch_get", "touch_put", "deactivate_get",
     "deactivate_put", "create_get", "create_put", "delete_get", "delete_put",
     "track_get", "append_get", "append_put"}

\* time.time() moves on by a tick interval.  Store calls are short: the clock
\* is read in whole intervals and does not move while a handler is inside
\* one; sends and completions may take any time.
Advance ==
    /\ clock < 1 + MaxAdvances * MinTickInterval
    /\ \A t \in CmdTasks : tk[t].pc \notin StoreCallPcs
    /\ clock' = clock + MinTickInterval
    /\ UNCHANGED <<config, kv, lock, tk, outbox, started, pure, loop>>

\* ---- _run_tick: entry, under self._tick_lock
AbortReason == [session |-> NoOrigin, reason |-> "plugin_not_enabled", topic_id |-> NullId]

\* The tick body without its disabled check: a disabled periodic tick goes on
\* to load the streams
TickBody_no_abort(base) == [base EXCEPT !.pc = "resolve", !.now = clock]

\* The first lines of the tick body, run as soon as the lock is held
TickBody(base) ==
    IF ~_settings.enabled /\ ~base.force
    THEN [base EXCEPT !.pc = "return", !.sent_count = 0, !.reasons = << AbortReason >>]
    ELSE [base EXCEPT !.pc = "resolve", !.now = clock]

\* _run_tick is called without the lock at all
_run_tick_unlocked(t, base) ==
    /\ tick_lock' = t
    /\ lock_waiters' = lock_waiters
    /\ Go(t, TickBody(base))

\* `async with self._tick_lock`: asyncio.Lock.acquire takes a free lock with
\* no live waiter at once, and queues the task otherwise
_run_tick(t, base) ==
    IF tick_lock = NoTask /\ lock_waiters = << >>
    THEN /\ tick_lock' = t
         /\ lock_waiters' = lock_waiters
         /\ Go(t, TickBody(base))
    ELSE /\ tick_lock' = tick_lock
         /\ lock_waiters' = Append(lock_waiters, t)
         /\ Go(t, [base EXCEPT !.pc = "lock_wait"])

\* asyncio.Lock: the first waiter is woken once the lock has been released
lock_acquired(t) ==
    /\ tk[t].pc = "lock_wait"
    /\ tick_lock = NoTask
    /\ lock_waiters # << >> /\ Head(lock_waiters) = t
    /\ tick_lock' = t
    /\ lock_waiters' = Tail(lock_waiters)
    /\ Go(t, TickBody(tk[t]))
    /\ UNCHANGED <<clock, config, kv, outbox, started, pure, loop>>

\* _scheduler_loop: the loop starts, or its wait_for times out, and the next
\* periodic tick is run
_scheduler_loop ==
    /\ ~shutdown_event
    /\ \/ tk[Sched].pc = "start"
       \/ tk[Sched].pc = "sleep" /\ clock >= tk[Sched].deadline
    /\ _run_tick(Sched, [SchedulerTask EXCEPT !.force = FALSE, !.target = NoOrigin])
    /\ UNCHANGED <<clock, config, kv, outbox, started, pure, loop>>

\* ---- _run_tick: the body
\* `await self._streams_for_tick(target_umo)` returns
_run_tick_streams(t) ==
    /\ tk[t].pc = "resolve"
    /\ \E streams \in _streams_for_tick(streamsDoc, tk[t].target) :
          Go(t, [tk[t] EXCEPT !.streams = streams, !.pc = "load_topics"])
    /\ UNCHANGED <<clock, config, kv, lock, outbox, started, pure, loop>>

\* `await self._store.list_topics(enabled_only=True)` returns; the loop begins
_run_tick_topics(t) ==
    /\ tk[t].pc = "load_topics"
    /\ Go(t, [tk[t] EXCEPT !.topics = list_topics(topicsDoc, TRUE),
                           !.sent_count = 0, !.reasons = << >>, !.idx = 1,
                           !.pc = IF tk[t].streams = << >> THEN "return" ELSE "gate"])
    /\ UNCHANGED <<clock, config, kv, lock, outbox, started, pure, loop>>

\* The loop moves to the next stream, or the tick is about to return
NextStream(L) ==
    [L EXCEPT !.idx = @ + 1,
              !.pc = IF L.idx + 1 > Len(L.streams) THEN "return" ELSE "gate",
              !.selected = NoTopic, !.fallback_text = 0,
              !.content = NoContent, !.bucket = << >>]

\* The loop with `break` in place of `continue`: a skipped stream ends the tick
Skip_break(L, reason) ==
    [NextStream([L EXCEPT !.reasons =
        Append(@, [session |-> L.streams[L.idx].unified_msg_origin, reason |-> reason,
                   topic_id |-> L.selected.topic_id])])
     EXCEPT !.pc = "return"]

\* reasons.append(f"{stream.session_name}:{reason}"); continue.  topic_id is
\* history, not part of the string: the topic selected for the stream, if any
Skip(L, reason) ==
    NextStream([L EXCEPT !.reasons =
        Append(@, [session |-> L.streams[L.idx].unified_msg_origin, reason |-> reason,
                   topic_id |-> L.selected.topic_id])])

\* sent_count += 1
Sent(L) == NextStream([L EXCEPT !.sent_count = @ + 1])

\* `if not content: ... empty_content`, else the send is issued
WithContent(L, content) ==
    IF content.len = 0 THEN Skip(L, "empty_content")
    ELSE [L EXCEPT !.content = content, !.pc = "send"]

\* _build_send_content up to the completion call: the fallback text is
\* rendered from the recent messages and truncated; _resolve_chat_provider_id
\* returns the configured id, or the host's lookup raises, finds no provider
\* or finds one.  Without a provider the fallback text is the content.
_build_send_content(L, recent, lookup) ==
    LET recent_dialogue ==
            [i \in 1..Len(recent) |-> recent[i].sender_name_len + 2 + recent[i].content_len]
        fallback_text ==
            _truncate_text(render_fallback_content(L.selected, recent_dialogue),
                           _settings.max_message_chars)
        provider_id == _settings.chat_provider_id # "" \/ lookup = "found"
    IN  IF provider_id
        THEN [L EXCEPT !.fallback_text = fallback_text, !.pc = "llm"]
        ELSE WithContent(L, Content("fallback", fallback_text))

\* One stream of the loop: the decision engine, topic selection, and the
\* start of content building (list_recent_messages reads the messages
\* document, the provider is resolved)
_run_tick_stream(t) ==
    /\ tk[t].pc = "gate"
    /\ \E r1, r2 \in RandomSamples, lookup \in {"raises", "none", "found"} :
          LET L == tk[t]
              stream == L.streams[L.idx]
              decision == should_initiate(stream, _settings, L.now, L.force, r1)
              selected == pick_topic(L.topics, _settings.fallback_topics, L.now, r2)
              recent == list_recent_messages(messagesDoc, stream.unified_msg_origin,
                                             _settings.message_window_size)
          IN  IF ~decision.should_send THEN Go(t, Skip(L, decision.reason))
              ELSE IF ~selected.found THEN Go(t, Skip(L, "no_topic"))
              ELSE Go(t, _build_send_content([L EXCEPT !.selected = selected], recent, lookup))
    /\ UNCHANGED <<clock, config, kv, lock, outbox, started, pure, loop>>

\* The completions the language model may give: stripped lengths
CompletionLens == {0, 25}

\* The completion branch without `if text:` and without the except clause:
\* whatever the call gave is the content
_build_send_content_completion_unguarded(L, raised, n) ==
    WithContent(L, Content("llm", IF raised THEN 0 ELSE _truncate_text(n, _settings.max_message_chars)))

\* _build_send_content from the completion call on: the call raised, or gave
\* a text of n characters once stripped; the truncated text is the content
\* if it is non-empty, the fallback text otherwise
_build_send_content_completion(L, raised, n) ==
    LET text == _truncate_text(n, _settings.max_message_chars)
    IN  IF ~raised /\ text > 0
        THEN WithContent(L, Content("llm", text))
        ELSE WithContent(L, Content("fallback", L.fallback_text))

\* context.llm_generate raises or returns
llm_generate(t) ==
    /\ tk[t].pc = "llm"
    /\ \E raised \in BOOLEAN, n \in CompletionLens :
          Go(t, _build_send_content_completion(tk[t], raised, n))
    /\ UNCHANGED <<clock, config, kv, lock, outbox, started, pure, loop>>

\* _send_message whose exception is not caught as a failure: the tick goes on
\* to mark_bot_initiated although nothing was sent
_send_message_unchecked(t) ==
    /\ tk[t].pc = "send"
    /\ \E sent \in BOOLEAN :
          /\ outbox' = IF sent
                       THEN Append(outbox,
                                [to |-> tk[t].streams[tk[t].idx].unified_msg_origin,
                                 now |-> tk[t].now])
                       ELSE outbox
          /\ Go(t, [tk[t] EXCEPT !.pc = "mark_get"])
    /\ UNCHANGED <<clock, config, kv, lock, started, pure, loop>>

\* _send_message: the transport accepts the message, or raises
_send_message(t) ==
    /\ tk[t].pc = "send"
    /\ \E sent \in BOOLEAN :
          IF sent
          THEN /\ outbox' = Append(outbox,
                      [to |-> tk[t].streams[tk[t].idx].unified_msg_origin,
                       now |-> tk[t].now])
               /\ Go(t, [tk[t] EXCEPT !.pc = "mark_get"])
          ELSE /\ outbox' = outbox
               /\ Go(t, Skip(tk[t], "send_failed"))
    /\ UNCHANGED <<clock, config, kv, lock, started, pure, loop>>

\* The loop without its mark_topic_used call
AfterMark_skip_used(L) == Sent(L)

\* After mark_bot_initiated: mark_topic_used for a persisted topic
AfterMark(L) ==
    IF L.selected.topic_id # NullId THEN [L EXCEPT !.pc = "used_get", !.bucket = << >>]
    ELSE Sent(L)

\* mark_bot_initiated reads the streams document
mark_bot_initiated_get(t) ==
    /\ tk[t].pc = "mark_get"
    /\ LET L == tk[t]
           umo == L.streams[L.idx].unified_msg_origin
       IN  IF umo \notin DOMAIN streamsDoc THEN Go(t, AfterMark(L))
           ELSE Go(t, [L EXCEPT !.bucket = mark_bot_initiated(streamsDoc, umo, L.now),
                                !.pc = "mark_put"])
    /\ UNCHANGED <<clock, config, kv, lock, outbox, started, pure, loop>>

\* mark_bot_initiated writes the streams document back
mark_bot_initiated_put(t) ==
    /\ tk[t].pc = "mark_put"
    /\ streamsDoc' = tk[t].bucket
    /\ Go(t, AfterMark(tk[t]))
    /\ UNCHANGED <<clock, config, topicsDoc, messagesDoc, lock, outbox, started, pure, loop>>

\* mark_topic_used reads the topics document
mark_topic_used_get(t) ==
    /\ tk[t].pc = "used_get"
    /\ LET L == tk[t]
       IN  IF L.selected.topic_id \notin DOMAIN topicsDoc.items THEN Go(t, Sent(L))
           ELSE Go(t, [L EXCEPT !.bucket = mark_topic_used(topicsDoc, L.selected.topic_id, L.now),
                                !.pc = "used_put"])
    /\ UNCHANGED <<clock, config, kv, lock, outbox, started, pure, loop>>

\* mark_topic_used writes the topics document back
mark_topic_used_put(t) ==
    /\ tk[t].pc = "used_put"
    /\ topicsDoc' = tk[t].bucket
    /\ Go(t, Sent(tk[t]))
    /\ UNCHANGED <<clock, config, streamsDoc, messagesDoc, lock, outbox, started, pure, loop>>

\* `return sent_count, reasons`: the lock is released; the scheduler goes to
\* its wait_for, a /topic_initiate command answers and ends
_run_tick_return(t) ==
    /\ tk[t].pc = "return"
    /\ tick_lock' = NoTask
    /\ lock_waiters' = lock_waiters
    /\ IF tk[t].cmd = "scheduler"
       THEN Go(t, [SchedulerTask EXCEPT !.pc = "sleep",
                                        !.deadline = clock + _settings.tick_interval_seconds])
       ELSE Go(t, IdleTask)
    /\ UNCHANGED <<clock, config, kv, outbox, started, pure, loop>>

\* ---- command handlers
\* A handler is invoked in a free task slot (the lowest one: slots are
\* interchangeable)
FreeSlot(t) ==
    /\ tk[t].pc = "idle"
    /\ \A u \in CmdTasks : u < t => tk[u].pc # "idle"
    /\ started < MaxCommands

Invoke(t, local) ==
    /\ FreeSlot(t)
    /\ started' = started + 1
    /\ Go(t, local)
    /\ UNCHANGED <<clock, config, kv, lock, outbox, pure, loop>>

\* /topic_bind: now = time.time(); bind_stream is awaited
topic_bind(t, o) ==
    /\ o \in Origins
    /\ Invoke(t, [IdleTask EXCEPT !.cmd = "topic_bind", !.umo = o, !.now = clock,
                                  !.pc = "bind_get"])

\* /topic_initiate: _ensure_current_stream_bound takes now and awaits bind_stream
topic_initiate(t, o) ==
    /\ o \in Origins
    /\ Invoke(t, [IdleTask EXCEPT !.cmd = "topic_initiate", !.umo = o, !.now = clock,
                                  !.pc = "bind_get"])

\* /topic_unbind: deactivate_stream takes ts = time.time() and awaits the read
topic_unbind(t, o) ==
    /\ o \in Origins
    /\ Invoke(t, [IdleTask EXCEPT !.cmd = "topic_unbind", !.umo = o, !.now = clock,
                                  !.pc = "deactivate_get"])

\* /topic_create with a well-formed "title|description" payload
topic_create(t) ==
    /\ topicsDoc.next_id <= MaxTopics
    /\ Invoke(t, [IdleTask EXCEPT !.cmd = "topic_create", !.now = clock,
                                  !.pc = "create_get"])

\* /topic_delete with a numeric id
topic_delete(t, id) ==
    /\ id \in 1..MaxTopics
    /\ Invoke(t, [IdleTask EXCEPT !.cmd = "topic_delete", !.topic_id = id,
                                  !.pc = "delete_get"])

\* A plain (non-empty, non-command) message arrives: get_stream is awaited
_track_messages(t, o) ==
    /\ o \in Origins
    /\ Invoke(t, [IdleTask EXCEPT !.cmd = "_track_messages", !.umo = o,
                                  !.pc = "track_get"])

\* ---- the store calls of the handlers
\* bind_stream without its _put_kv: the record is built and dropped
bind_stream_put_dropped(t) ==
    /\ tk[t].pc = "bind_put"
    /\ Go(t, [tk[t] EXCEPT !.bucket = << >>, !.pc = "touch_get"])
    /\ UNCHANGED <<clock, config, kv, lock, outbox, started, pure, loop>>

bind_stream_get(t) ==
    /\ tk[t].pc = "bind_get"
    /\ Go(t, [tk[t] EXCEPT !.bucket = bind_stream(streamsDoc, tk[t].umo, tk[t].now),
                           !.pc = "bind_put"])
    /\ UNCHANGED <<clock, config, kv, lock, outbox, started, pure, loop>>

bind_stream_put(t) ==
    /\ tk[t].pc = "bind_put"
    /\ streamsDoc' = tk[t].bucket
    /\ Go(t, [tk[t] EXCEPT !.bucket = << >>, !.pc = "touch_get"])
    /\ UNCHANGED <<clock, config, topicsDoc, messagesDoc, lock, outbox, started, pure, loop>>

\* What follows `await self._store.touch_user_message(...)` in each handler
AfterTouch(t, L) ==
    IF L.cmd = "topic_initiate"
    THEN _run_tick(t, [L EXCEPT !.bucket = << >>, !.force = TRUE, !.target = L.umo])
    ELSE /\ UNCHANGED lock
         /\ IF L.cmd = "_track_messages"
            THEN Go(t, [L EXCEPT !.bucket = << >>, !.pc = "append_get"])
            ELSE Go(t, IdleTask)

touch_user_message_get(t) ==
    /\ tk[t].pc = "touch_get"
    /\ IF tk[t].umo \notin DOMAIN streamsDoc
       THEN AfterTouch(t, tk[t])
       ELSE /\ Go(t, [tk[t] EXCEPT
                        !.bucket = touch_user_message(streamsDoc, tk[t].umo, tk[t].now),
                        !.pc = "touch_put"])
            /\ UNCHANGED lock
    /\ UNCHANGED <<clock, config, kv, outbox, started, pure, loop>>

touch_user_message_put(t) ==
    /\ tk[t].pc = "touch_put"
    /\ streamsDoc' = tk[t].bucket
    /\ AfterTouch(t, tk[t])
    /\ UNCHANGED <<clock, config, topicsDoc, messagesDoc, outbox, started, pure, loop>>

deactivate_stream_get(t) ==
    /\ tk[t].pc = "deactivate_get"
    /\ IF tk[t].umo \notin DOMAIN streamsDoc
       THEN Go(t, IdleTask)
       ELSE Go(t, [tk[t] EXCEPT
                     !.bucket = deactivate_stream(streamsDoc, tk[t].umo, tk[t].now),
                     !.pc = "deactivate_put"])
    /\ UNCHANGED <<clock, config, kv, lock, outbox, started, pure, loop>>

deactivate_stream_put(t) ==
    /\ tk[t].pc = "deactivate_put"
    /\ streamsDoc' = tk[t].bucket
    /\ Go(t, IdleTask)
    /\ UNCHANGED <<clock, config, topicsDoc, messagesDoc, lock, outbox, started, pure, loop>>

create_topic_get(t) ==
    /\ tk[t].pc = "create_get"
    /\ Go(t, [tk[t] EXCEPT !.bucket = create_topic(topicsDoc, Draft, tk[t].now),
                           !.topic_id = topicsDoc.next_id,
                           !.pc = "create_put"])
    /\ UNCHANGED <<clock, config, kv, lock, outbox, started, pure, loop>>

\* create_topic writing only while no tick holds the tick lock
create_topic_put_locked(t) ==
    /\ tk[t].pc = "create_put"
    /\ tick_lock = NoTask
    /\ topicsDoc' = tk[t].bucket
    /\ Go(t, IdleTask)
    /\ UNCHANGED <<clock, config, streamsDoc, messagesDoc, lock, outbox, started, pure, loop>>

create_topic_put(t) ==
    /\ tk[t].pc = "create_put"
    /\ topicsDoc' = tk[t].bucket
    /\ Go(t, IdleTask)
    /\ UNCHANGED <<clock, config, streamsDoc, messagesDoc, lock, outbox, started, pure, loop>>

delete_topic_get(t) ==
    /\ tk[t].pc = "delete_get"
    /\ Go(t, [tk[t] EXCEPT !.bucket = delete_topic(topicsDoc, tk[t].topic_id),
                           !.pc = "delete_put"])
    /\ UNCHANGED <<clock, config, kv, lock, outbox, started, pure, loop>>

delete_topic_put(t) ==
    /\ tk[t].pc = "delete_put"
    /\ topicsDoc' = tk[t].bucket
    /\ Go(t, IdleTask)
    /\ UNCHANGED <<clock, config, streamsDoc, messagesDoc, lock, outbox, started, pure, loop>>

\* _track_messages: get_stream returns; now = time.time() for an active stream
get_stream(t) ==
    /\ tk[t].pc = "track_get"
    /\ IF tk[t].umo \notin DOMAIN streamsDoc \/ ~streamsDoc[tk[t].umo].active
       THEN Go(t, IdleTask)
       ELSE Go(t, [tk[t] EXCEPT !.now = clock, !.pc = "touch_get"])
    /\ UNCHANGED <<clock, config, kv, lock, outbox, started, pure, loop>>

\* The snapshot of a tracked message: sender name and stripped text
MessageSnapshot(created_at) ==
    [created_at |-> created_at, sender_name_len |-> 3, content_len |-> 5]

append_message_get(t) ==
    /\ tk[t].pc = "append_get"
    /\ Go(t, [tk[t] EXCEPT
                !.bucket = append_message(messagesDoc, tk[t].umo,
                               MessageSnapshot(tk[t].now), _settings.message_window_size),
                !.pc = "append_put"])
    /\ UNCHANGED <<clock, config, kv, lock, outbox, started, pure, loop>>

append_message_put(t) ==
    /\ tk[t].pc = "append_put"
    /\ messagesDoc' = tk[t].bucket
    /\ Go(t, IdleTask)
    /\ UNCHANGED <<clock, config, streamsDoc, topicsDoc, lock, outbox, started, pure, loop>>

\* ---- the scheduler loop: failing ticks, the wait between ticks, teardown
\* The awaits of a tick on the KV store, where the store may raise
StoreAwaitPcs ==
    {"resolve", "load_topics", "gate", "mark_get", "mark_put", "used_get", "used_put"}

\* The scheduler task has ended (cancelled, or its loop fell through)
TaskDone == [IdleTask EXCEPT !.pc = "done", !.cmd = "scheduler"]

\* The scheduler in asyncio.wait_for(self._shutdown_event.wait(), timeout)
Waiting == [SchedulerTask EXCEPT !.pc = "sleep", !.deadline = clock + _settings.tick_interval_seconds]

\* An exception in the periodic tick that ends the scheduler task
_scheduler_loop_uncaught ==
    /\ tk[Sched].pc \in StoreAwaitPcs
    /\ tick_lock' = NoTask
    /\ lock_waiters' = lock_waiters
    /\ Go(Sched, TaskDone)
    /\ UNCHANGED <<clock, config, kv, outbox, started, pure, loop>>

\* A store call of the periodic tick raises: `async with` releases the lock,
\* `except Exception` logs the error, and the loop goes on to its wait_for
_scheduler_loop_except ==
    /\ tk[Sched].pc \in StoreAwaitPcs
    /\ tick_lock' = NoTask
    /\ lock_waiters' = lock_waiters
    /\ errors_logged' = errors_logged + 1
    /\ Go(Sched, Waiting)
    /\ UNCHANGED <<clock, config, kv, outbox, started, pure, shutdown_event>>

\* Scheduler ticks the loop specification lets the clock reach
MaxLoopTicks == 3

\* Time passes while the scheduler is in wait_for, up to its timeout
wait_for_timeout ==
    /\ tk[Sched].pc = "sleep"
    /\ ~shutdown_event
    /\ clock < tk[Sched].deadline
    /\ tk[Sched].deadline <= 1 + MaxLoopTicks * MinTickInterval
    /\ clock' = tk[Sched].deadline
    /\ UNCHANGED <<config, kv, lock, tk, outbox, started, pure, loop>>

\* terminate(): the event is set, the scheduler task is cancelled, and
\* `await self._tick_task` is pending
terminate(t) ==
    /\ ~shutdown_event
    /\ tk[t].pc = "idle"
    /\ shutdown_event' = TRUE
    /\ Go(t, [IdleTask EXCEPT !.cmd = "terminate", !.pc = "await_tick_task"])
    /\ UNCHANGED <<clock, config, kv, lock, outbox, started, pure, errors_logged>>

\* A cancelled tick that leaves the lock held
tick_task_cancelled_keeps_lock ==
    /\ \E t \in CmdTasks : tk[t].cmd = "terminate"
    /\ tk[Sched].pc # "done"
    /\ Go(Sched, TaskDone)
    /\ UNCHANGED <<clock, config, kv, lock, outbox, started, pure, loop>>

\* The cancellation reaches the scheduler task at its pending await (or
\* before its first step): CancelledError passes `except Exception` and is
\* re-raised by the loop, `async with` releases the lock if the tick holds it,
\* a pending lock request is withdrawn; in wait_for the task ends as well
\* (cancelled, or the set event ends the while loop)
tick_task_cancelled ==
    /\ \E t \in CmdTasks : tk[t].cmd = "terminate"
    /\ tk[Sched].pc # "done"
    /\ tick_lock' = IF tick_lock = Sched THEN NoTask ELSE tick_lock
    /\ lock_waiters' = SelectSeq(lock_waiters, LAMBDA w : w # Sched)
    /\ Go(Sched, TaskDone)
    /\ UNCHANGED <<clock, config, kv, outbox, started, pure, loop>>

\* `await self._tick_task` returns or raises CancelledError, which is absorbed
terminate_return(t) ==
    /\ tk[t].cmd = "terminate"
    /\ tk[Sched].pc = "done"
    /\ Go(t, IdleTask)
    /\ UNCHANGED <<clock, config, kv, lock, outbox, started, pure, loop>>

InitLoop == Init

NextLoop ==
    \/ _scheduler_loop
    \/ _scheduler_loop_except
    \/ wait_for_timeout
    \/ tick_task_cancelled
    \/ \E t \in CmdTasks : terminate(t) \/ terminate_return(t)
    \/ _run_tick_streams(Sched)
    \/ _run_tick_topics(Sched)
    \/ _run_tick_stream(Sched)
    \/ llm_generate(Sched)
    \/ _send_message(Sched)
    \/ mark_bot_initiated_get(Sched)
    \/ mark_bot_initiated_put(Sched)
    \/ mark_topic_used_get(Sched)
    \/ mark_topic_used_put(Sched)
    \/ _run_tick_return(Sched)

\* The event loop runs a task that is ready, timers fire and a requested
\* cancellation is delivered; a store call, a completion or a send may stay
\* pending for ever
SpecLoop ==
    /\ InitLoop /\ [][NextLoop]_vars
    /\ WF_vars(_scheduler_loop)
    /\ WF_vars(wait_for_timeout)
    /\ WF_vars(tick_task_cancelled)
    /\ WF_vars(\E t \in CmdTasks : terminate_return(t))

\* ---- the read-only commands
\* /topic_status: get_stream, list_active_streams and list_topics are awaited
\* in turn, then the report is given
topic_status(t, o) ==
    /\ o \in Origins
    /\ Invoke(t, [IdleTask EXCEPT !.cmd = "topic_status", !.umo = o, !.pc = "status_stream"])

topic_status_step(t) ==
    /\ tk[t].cmd = "topic_status"
    /\ \/ tk[t].pc = "status_stream" /\ Go(t, [tk[t] EXCEPT !.pc = "status_active"])
       \/ tk[t].pc = "status_active" /\ Go(t, [tk[t] EXCEPT !.pc = "status_topics"])
       \/ tk[t].pc = "status_topics" /\ Go(t, IdleTask)
    /\ UNCHANGED <<clock, config, kv, lock, outbox, started, pure, loop>>

\* /topic_list: list_topics is awaited, then the list is given
topic_list(t) ==
    /\ tk[t].pc = "idle"
    /\ Invoke(t, [IdleTask EXCEPT !.cmd = "topic_list", !.pc = "list_topics"])

topic_list_step(t) ==
    /\ tk[t].cmd = "topic_list"
    /\ tk[t].pc = "list_topics"
    /\ Go(t, IdleTask)
    /\ UNCHANGED <<clock, config, kv, lock, outbox, started, pure, loop>>

\* ---------------------------------------------------------- specification
Next ==
    \/ Advance
    \/ _scheduler_loop
    \/ \E t \in CmdTasks, o \in Origins :
        \/ topic_bind(t, o)
        \/ topic_unbind(t, o)
        \/ topic_initiate(t, o)
        \/ _track_messages(t, o)
    \/ \E t \in CmdTasks : topic_create(t)
    \/ \E t \in CmdTasks, id \in 1..MaxTopics : topic_delete(t, id)
    \/ \E t \in Tasks :
        \/ lock_acquired(t)
        \/ _run_tick_streams(t)
        \/ _run_tick_topics(t)
        \/ _run_tick_stream(t)
        \/ llm_generate(t)
        \/ _send_message(t)
        \/ mark_bot_initiated_get(t)
        \/ mark_bot_initiated_put(t)
        \/ mark_topic_used_get(t)
        \/ mark_topic_used_put(t)
        \/ _run_tick_return(t)
    \/ \E t \in CmdTasks :
        \/ bind_stream_get(t)
        \/ bind_stream_put(t)
        \/ touch_user_message_get(t)
        \/ touch_user_message_put(t)
        \/ deactivate_stream_get(t)
        \/ deactivate_stream_put(t)
        \/ create_topic_get(t)
        \/ create_topic_put(t)
        \/ delete_topic_get(t)
        \/ delete_topic_put(t)
        \/ get_stream(t)
        \/ append_message_get(t)
        \/ append_message_put(t)

Spec == Init /\ [][Next]_vars

\* ================================ specifications of the pure functions


\* The orchestrator is left idle while a pure function is exercised
PureParked ==
    /\ Parked
    /\ EmptyStore
    /\ config = PluginSettings(TRUE, 500, 120, 1, "", QuietHours(FALSE, DefaultQuietStart, DefaultQuietEnd))
    /\ tk = [t \in Tasks |-> IdleTask]
    /\ ret = NoRet

PureFrame == UNCHANGED <<clock, config, streamsDoc, topicsDoc, messagesDoc,
                         tick_lock, lock_waiters, tk, outbox, started, call, loop>>

\* ------------------------------------------ should_initiate (services.py)
MaxTs == 3
MaxGap == 2

QuietSamples ==
    { QuietHours(FALSE, DefaultQuietStart, DefaultQuietEnd),
      QuietHours(TRUE, DefaultQuietStart, DefaultQuietEnd),
      QuietHours(TRUE, DefaultQuietEnd, DefaultQuietStart) }

DecideCalls ==
    [ fn : {"should_initiate"},
      active : BOOLEAN,
      last_bot_initiate_ts : 0..MaxTs,
      last_user_message_ts : 0..MaxTs,
      enabled : BOOLEAN,
      quiet_hours : QuietSamples,
      cooldown_seconds : 0..MaxGap,
      silence_seconds : 0..MaxGap,
      trigger_probability : {0, 500, 1000},
      now : 1..MaxTs,
      force : BOOLEAN,
      random_value : RandomSamples ]

InitDecide == PureParked /\ call \in DecideCalls

\* One call of the decision engine on the drawn arguments
Decide ==
    /\ ~ret.done
    /\ ret' = [done |-> TRUE,
               value |-> should_initiate(
                   [active |-> call.active,
                    last_bot_initiate_ts |-> call.last_bot_initiate_ts,
                    last_user_message_ts |-> call.last_user_message_ts],
                   PluginSettings(call.enabled, call.trigger_probability,
                                  call.cooldown_seconds, call.silence_seconds,
                                  "", call.quiet_hours),
                   call.now, call.force, call.random_value)]
    /\ PureFrame

NextDecide == Decide
SpecDecide == InitDecide /\ [][NextDecide]_vars

\* ------------------------------------------ QuietHours.is_active (config.py)
QuietMarks == {0, 1, 479, 480, 720, 1379, 1380, 1439}

QuietCalls ==
    [ fn : {"is_active"},
      enabled : BOOLEAN,
      start_minutes : QuietMarks,
      end_minutes : QuietMarks,
      hour : 0..23,
      minute : 0..59 ]

InitQuiet == PureParked /\ call \in QuietCalls

\* One evaluation of the quiet-hours window at the drawn wall-clock time
EvalQuiet ==
    /\ ~ret.done
    /\ ret' = [done |-> TRUE,
               value |-> is_active(
                   QuietHours(call.enabled, call.start_minutes, call.end_minutes),
                   call.hour * 60 + call.minute)]
    /\ PureFrame

NextQuiet == EvalQuiet
SpecQuiet == InitQuiet /\ [][NextQuiet]_vars


\* ------------------------------------------ the message window (kv_store.py)
MaxWindow == 3
MaxAppends == 4
MaxStamp == 3

\* The stream whose messages are appended
WindowOrigin == 1

\* call.appended is the list of every snapshot handed to append_message so far
WindowCalls ==
    { [fn |-> "append_message", max_records |-> n, appended |-> << >>] : n \in 1..MaxWindow }

InitWindow == PureParked /\ call \in WindowCalls

WindowFrame == UNCHANGED <<clock, config, streamsDoc, topicsDoc, tick_lock, lock_waiters, tk, outbox, started, loop>>

\* One completed append_message call; the k-th snapshot has a text of k
\* characters, so that snapshots of one second differ
AppendOne(created_at) ==
    /\ Len(call.appended) < MaxAppends
    /\ LET snapshot == [MessageSnapshot(created_at) EXCEPT !.content_len = Len(call.appended) + 1]
       IN  /\ messagesDoc' = append_message(messagesDoc, WindowOrigin, snapshot, call.max_records)
           /\ call' = [call EXCEPT !.appended = Append(@, snapshot)]
    /\ ret' = NoRet
    /\ WindowFrame

\* list_recent_messages(umo, limit=settings.message_window_size)
ReadRecent ==
    /\ ~ret.done
    /\ ret' = [done |-> TRUE,
               value |-> list_recent_messages(messagesDoc, WindowOrigin, call.max_records)]
    /\ UNCHANGED <<messagesDoc, call>>
    /\ WindowFrame

NextWindow ==
    \/ \E created_at \in 1..MaxStamp : AppendOne(created_at)
    \/ ReadRecent
SpecWindow == InitWindow /\ [][NextWindow]_vars

\* ------------------------------------------ message tracking on two streams
\* Both conversations were bound at second 1; nothing but plain messages
\* arrives, and the scheduler is left out
InitTrack ==
    /\ Parked
    /\ streamsDoc = touch_user_message(bind_stream(touch_user_message(bind_stream(<< >>, 1, 1), 1, 1), 2, 1), 2, 1)
    /\ topicsDoc = [next_id |-> 1, items |-> << >>]
    /\ messagesDoc = << >>
    /\ config = PluginSettings(TRUE, 500, 120, 1, "", QuietHours(FALSE, DefaultQuietStart, DefaultQuietEnd))
    /\ tk = [t \in Tasks |-> IdleTask]
    /\ call = NoCall
    /\ ret = NoRet

NextTrack ==
    \/ Advance
    \/ \E t \in CmdTasks :
        \/ \E o \in Origins : _track_messages(t, o)
        \/ get_stream(t)
        \/ touch_user_message_get(t)
        \/ touch_user_message_put(t)
        \/ append_message_get(t)
        \/ append_message_put(t)
SpecTrack == InitTrack /\ [][NextTrack]_vars

\* ------------------------------------------ messages of every kind arrive
\* _track_messages for a message whose stripped text is empty or starts with
\* "/": the handler returns before its first await
_track_messages_ignored(t, o) ==
    /\ o \in Origins
    /\ FreeSlot(t)
    /\ started' = started + 1
    /\ UNCHANGED <<clock, config, kv, tk, lock, outbox, pure, loop>>

\* Conversation 1 is bound and active; conversation 2 is unbound, or bound
\* and then unbound again, or bound and active
InitMessages ==
    /\ Parked
    /\ LET one == touch_user_message(bind_stream(<< >>, 1, 1), 1, 1)
           two == touch_user_message(bind_stream(one, 2, 1), 2, 1)
       IN  streamsDoc \in {one, two, deactivate_stream(two, 2, 1)}
    /\ topicsDoc = [next_id |-> 1, items |-> << >>]
    /\ messagesDoc = << >>
    /\ config = PluginSettings(TRUE, 500, 120, 1, "", QuietHours(FALSE, DefaultQuietStart, DefaultQuietEnd))
    /\ tk = [t \in Tasks |-> IdleTask]
    /\ call = NoCall
    /\ ret = NoRet

NextMessages ==
    \/ Advance
    \/ \E t \in CmdTasks :
        \/ \E o \in Origins : _track_messages(t, o)
        \/ \E o \in Origins : _track_messages_ignored(t, o)
        \/ get_stream(t)
        \/ touch_user_message_get(t)
        \/ touch_user_message_put(t)
        \/ append_message_get(t)
        \/ append_message_put(t)
SpecMessages == InitMessages /\ [][NextMessages]_vars

\* ------------------------------------------ commands run one at a time
\* /topic_initiate and /topic_unbind arrive one after the other, each after
\* the previous one has answered, while the scheduler is between two ticks
InitInitiate ==
    /\ Parked
    /\ SeededStore
    /\ config \in MainConfigs
    /\ tk = [t \in Tasks |-> IdleTask]
    /\ call = NoCall
    /\ ret = NoRet

\* No command is being handled
Alone == \A u \in CmdTasks : tk[u].pc = "idle"

NextInitiate ==
    \/ Advance
    \/ \E t \in CmdTasks :
        \/ Alone /\ \E o \in Origins : topic_initiate(t, o)
        \/ Alone /\ \E o \in Origins : topic_unbind(t, o)
        \/ bind_stream_get(t)
        \/ bind_stream_put(t)
        \/ touch_user_message_get(t)
        \/ touch_user_message_put(t)
        \/ deactivate_stream_get(t)
        \/ deactivate_stream_put(t)
        \/ _run_tick_streams(t)
        \/ _run_tick_topics(t)
        \/ _run_tick_stream(t)
        \/ llm_generate(t)
        \/ _send_message(t)
        \/ mark_bot_initiated_get(t)
        \/ mark_bot_initiated_put(t)
        \/ mark_topic_used_get(t)
        \/ mark_topic_used_put(t)
        \/ _run_tick_return(t)
SpecInitiate == InitInitiate /\ [][NextInitiate]_vars

\* ------------------------------------------ _build_send_content (main.py)
\* The topics a message is built for: the persisted topic, a fallback line
ContentTopics ==
    { [found |-> TRUE, topic_id |-> 1, title_len |-> Draft.title_len, desc_len |-> Draft.desc_len],
      [found |-> TRUE, topic_id |-> NullId, title_len |-> 18, desc_len |-> 16] }

\* Stripped lengths of the completion text: empty, short, longer than the cap
ContentCompletionLens == {0, 5, 25}

ContentCalls ==
    [ fn : {"_build_send_content"},
      topic : ContentTopics,
      recent : {<< >>, << MessageSnapshot(1) >>},
      lookup : {"raises", "none", "found"},
      raised : BOOLEAN,
      completion_len : ContentCompletionLens ]

\* The provider is configured, or left to the host's per-conversation lookup
ContentConfigs ==
    { PluginSettings(TRUE, 500, 120, 1, id, QuietHours(FALSE, DefaultQuietStart, DefaultQuietEnd)) :
          id \in {"", "provider"} }

InitContent ==
    /\ Parked
    /\ SeededStore
    /\ config \in ContentConfigs
    /\ tk = [t \in Tasks |-> IdleTask]
    /\ call \in ContentCalls
    /\ ret = NoRet

\* One call of _build_send_content for the bound stream, on the drawn
\* outcomes of the provider lookup and of the completion call
BuildContent ==
    /\ ~ret.done
    /\ LET stream == _to_stream_target(streamsDoc, 1)
           L == [IdleTask EXCEPT !.cmd = "topic_initiate", !.pc = "gate", !.force = TRUE,
                                 !.streams = << stream >>, !.idx = 1, !.selected = call.topic]
           built == _build_send_content(L, call.recent, call.lookup)
           done == IF built.pc = "llm"
                   THEN _build_send_content_completion(built, call.raised, call.completion_len)
                   ELSE built
       IN  ret' = [done |-> TRUE, value |-> done.content, pc |-> done.pc]
    /\ PureFrame

NextContent == BuildContent
SpecContent == InitContent /\ [][NextContent]_vars

\* ------------------------------------------ a periodic tick that hangs
\* The periodic tick of the given time over the stored streams and topics, at
\* the point where its completion call or its send is pending
HungTicks(now) ==
    LET base == [SchedulerTask EXCEPT
                    !.now = now, !.idx = 1,
                    !.streams = CHOOSE s \in _streams_for_tick(streamsDoc, NoOrigin) : TRUE,
                    !.topics = list_topics(topicsDoc, TRUE)]
        built(r2, lookup) ==
            _build_send_content(
                [base EXCEPT !.selected = pick_topic(base.topics, _settings.fallback_topics, now, r2)],
                list_recent_messages(messagesDoc, base.streams[1].unified_msg_origin,
                                     _settings.message_window_size),
                lookup)
    IN  { built(r2, lookup) : r2 \in RandomSamples, lookup \in {"raises", "none", "found"} }

\* One tick interval after the store was seeded the first periodic tick has
\* found the conversation silent, has passed the random gate and is now
\* inside its completion call or its send, which never returns
InitHang ==
    /\ clock = 1 + MinTickInterval
    /\ shutdown_event = FALSE
    /\ errors_logged = 0
    /\ lock_waiters = << >>
    /\ outbox = << >>
    /\ started = 0
    /\ SeededStore
    /\ config = PluginSettings(TRUE, 500, 120, 1, "", QuietHours(FALSE, DefaultQuietStart, DefaultQuietEnd))
    /\ tick_lock = Sched
    /\ \E L \in HungTicks(clock) :
          tk = [t \in Tasks |-> IF t = Sched THEN L ELSE IdleTask]
    /\ call = NoCall
    /\ ret = NoRet

\* The next step of the command handled in slot t
CmdStep(t) ==
    \/ bind_stream_get(t)
    \/ bind_stream_put(t)
    \/ touch_user_message_get(t)
    \/ touch_user_message_put(t)
    \/ deactivate_stream_get(t)
    \/ deactivate_stream_put(t)
    \/ create_topic_get(t)
    \/ create_topic_put(t)
    \/ delete_topic_get(t)
    \/ delete_topic_put(t)
    \/ get_stream(t)
    \/ append_message_get(t)
    \/ append_message_put(t)
    \/ topic_status_step(t)
    \/ topic_list_step(t)

NextHang ==
    \/ \E t \in CmdTasks, o \in Origins :
        \/ topic_bind(t, o)
        \/ topic_unbind(t, o)
        \/ topic_initiate(t, o)
        \/ topic_status(t, o)
        \/ _track_messages(t, o)
    \/ \E t \in CmdTasks : topic_create(t) \/ topic_list(t)
    \/ \E t \in CmdTasks, id \in 1..MaxTopics : topic_delete(t, id)
    \/ \E t \in CmdTasks : CmdStep(t)

\* The event loop runs every task that is ready, and the store answers
SpecHang ==
    /\ InitHang /\ [][NextHang]_vars
    /\ \A t \in CmdTasks : WF_vars(CmdStep(t))


\* ------------------------------------------ PluginSettings.from_config (config.py)
\* Numbers as Python has them: a finite number in thousandths, an int too
\* large for a float, float("inf"), float("nan")
Fin(m) == [k |-> "fin", m |-> m]
HugeInt == [k |-> "huge"]
PosInf == [k |-> "inf"]
NaN == [k |-> "nan"]
\* An exception that leaves the function
Raised == [k |-> "raised"]

\* a > b on Python numbers: every comparison with nan is false
py_gt(a, b) ==
    IF a.k = "nan" \/ b.k = "nan" THEN FALSE
    ELSE IF a.k = "inf" THEN b.k # "inf"
    ELSE IF b.k = "inf" THEN FALSE
    ELSE IF a.k = "huge" THEN b.k # "huge"
    ELSE IF b.k = "huge" THEN FALSE
    ELSE a.m > b.m

\* max(a, b) and min(a, b): the first argument unless the second is beyond it
py_max(a, b) == IF a.k = "raised" THEN a ELSE IF py_gt(b, a) THEN b ELSE a
py_min(a, b) == IF a.k = "raised" THEN a ELSE IF py_gt(a, b) THEN b ELSE a

\* The values a configuration mapping may hold under a key: the key is
\* missing or None, a text that is no number, the text "nan", a list, an int,
\* a float, an int beyond the float range, inf, nan
ConfigNumbers == { -5000, 0, 500, 1000, 30000, 100000000 }
ConfigValues ==
    { [t |-> "none"], [t |-> "text"], [t |-> "text_nan"], [t |-> "list"],
      [t |-> "number", n |-> HugeInt], [t |-> "number", n |-> PosInf],
      [t |-> "number", n |-> NaN] }
    \cup { [t |-> "number", n |-> Fin(m)] : m \in ConfigNumbers }

\* models.as_int: int(value), with TypeError and ValueError giving the default
as_int(value, default) ==
    IF value.t \in {"none", "list"} THEN Fin(default * 1000)
    ELSE IF value.t \in {"text", "text_nan"} THEN Fin(default * 1000)
    ELSE IF value.n.k = "nan" THEN Fin(default * 1000)
    ELSE IF value.n.k = "inf" THEN Raised
    ELSE IF value.n.k = "huge" THEN HugeInt
    ELSE IF value.n.m >= 0 THEN Fin((value.n.m \div 1000) * 1000)
    ELSE Fin(0 - (((0 - value.n.m) \div 1000) * 1000))

\* models.as_float: float(value), with TypeError and ValueError giving the default
as_float(value, default_permille) ==
    IF value.t \in {"none", "list", "text"} THEN Fin(default_permille)
    ELSE IF value.t = "text_nan" THEN NaN
    ELSE IF value.n.k = "huge" THEN Raised
    ELSE value.n

\* "HH:MM" texts: the hours and minutes written, or a text of another shape
ConfigTimes ==
    { [t |-> "none"], [t |-> "malformed"] }
    \cup { [t |-> "hhmm", hour |-> h, minute |-> m] : h \in {-1, 0, 7, 23, 24}, m \in {-1, 0, 30, 59, 60} }

\* models.parse_time_hhmm
parse_time_hhmm(value, default_minutes) ==
    IF value.t \in {"none", "malformed"} THEN default_minutes
    ELSE IF value.hour < 0 \/ value.hour > 23 \/ value.minute < 0 \/ value.minute > 59
        THEN default_minutes
    ELSE value.hour * 60 + value.minute

\* raw.get(key) for the mapping of a call: one key holds the drawn value
ConfigKeys ==
    {"tick_interval_seconds", "trigger_probability", "cooldown_seconds",
     "silence_seconds", "message_window_size", "max_message_chars"}
RawGet(c, key) == IF c.key = key THEN c.value ELSE [t |-> "none"]
RawTime(c, key) == IF c.key = key THEN c.value ELSE [t |-> "none"]

\* PluginSettings.from_config: the numeric fields and the quiet hours, or the
\* exception that leaves it
from_config(c) ==
    LET tick_interval == py_max(as_int(RawGet(c, "tick_interval_seconds"), 300), Fin(MinTickInterval * 1000))
        trigger_probability ==
            py_min(py_max(as_float(RawGet(c, "trigger_probability"), 300), Fin(0)), Fin(1000))
        cooldown_seconds == py_max(as_int(RawGet(c, "cooldown_seconds"), 1800), Fin(0))
        silence_seconds == py_max(as_int(RawGet(c, "silence_seconds"), 600), Fin(0))
        message_window_size == py_max(as_int(RawGet(c, "message_window_size"), 20), Fin(1000))
        max_message_chars == py_max(as_int(RawGet(c, "max_message_chars"), 120), Fin(MinMessageChars * 1000))
        fields == << tick_interval, trigger_probability, cooldown_seconds, silence_seconds,
                     message_window_size, max_message_chars >>
    IN  IF \E i \in DOMAIN fields : fields[i].k = "raised"
        THEN [raised |-> TRUE]
        ELSE [raised |-> FALSE,
              tick_interval_seconds |-> tick_interval,
              trigger_probability |-> trigger_probability,
              cooldown_seconds |-> cooldown_seconds,
              silence_seconds |-> silence_seconds,
              message_window_size |-> message_window_size,
              max_message_chars |-> max_message_chars,
              start_minutes |-> parse_time_hhmm(RawTime(c, "quiet_hours.start"), DefaultQuietStart),
              end_minutes |-> parse_time_hhmm(RawTime(c, "quiet_hours.end"), DefaultQuietEnd)]

\* A mapping with one key set (every other key missing)
FromConfigCalls ==
    { [fn |-> "from_config", key |-> key, value |-> v] : key \in ConfigKeys, v \in ConfigValues }
    \cup { [fn |-> "from_config", key |-> key, value |-> v] :
              key \in {"quiet_hours.start", "quiet_hours.end"}, v \in ConfigTimes }

InitFromConfig == PureParked /\ call \in FromConfigCalls

FromConfig ==
    /\ ~ret.done
    /\ ret' = [done |-> TRUE, value |-> from_config(call)]
    /\ PureFrame

NextFromConfig == FromConfig
SpecFromConfig == InitFromConfig /\ [][NextFromConfig]_vars

\* ------------------------------------------ pick_topic (services.py)
\* The time of the call, and the topics list_topics can hand over: ids in
\* list order, priority at least 1, never used or used some time before (or,
\* with a clock set back, after) now
PickNow == 300000
PickRecords(id) ==
    { [id |-> id, title_len |-> 2, desc_len |-> 3, priority |-> p, enabled |-> TRUE,
       use_count |-> IF at = 0 THEN 0 ELSE 1, last_used_at |-> at,
       created_at |-> 1, updated_at |-> 1] :
        p \in {1, 2},
        at \in {0, PickNow + 50, PickNow - 3600, PickNow - 90000, PickNow - 200000} }
PickTopics ==
    { <<a>> : a \in PickRecords(1) }
    \cup { <<a, b>> : a \in PickRecords(1), b \in PickRecords(2) }
    \cup { <<a, b, c>> : a \in PickRecords(1), b \in PickRecords(2), c \in PickRecords(3) }
\* random.random() lies in [0, 1): thousandths
PickDraws == {0, 1, 333, 500, 667, 999}
PickCalls ==
    { [fn |-> "pick_topic", topics |-> ts, fallback_lines |-> fl, now |-> PickNow,
       random_value |-> r] :
        ts \in PickTopics, fl \in { << >>, <<Text(2)>> }, r \in PickDraws }

InitPick == PureParked /\ call \in PickCalls

\* One call of pick_topic; the weights it computed are kept beside the result
PickTopic ==
    /\ ~ret.done
    /\ ret' = [done |-> TRUE,
               value |-> pick_topic(call.topics, call.fallback_lines, call.now, call.random_value),
               weights |-> [i \in DOMAIN call.topics |-> TopicWeight(call.topics[i], call.now)]]
    /\ PureFrame

NextPick == PickTopic
SpecPick == InitPick /\ [][NextPick]_vars

\* ------------------------------------------ _parse_fallback_line (services.py)
\* The lines: every text of up to MaxLineLen characters over a letter, a
\* space and the two delimiters
MaxLineLen == 5
LineChars == {"x", Space, Bar, FullWidthBar}
Lines == UNION { [1..n -> LineChars] : n \in 0..MaxLineLen }
ParseCalls == { [fn |-> "_parse_fallback_line", line |-> line] : line \in Lines }

InitParse == PureParked /\ call \in ParseCalls

ParseLine ==
    /\ ~ret.done
    /\ ret' = [done |-> TRUE, value |-> _parse_fallback_line(call.line)]
    /\ PureFrame

NextParse == ParseLine
SpecParse == InitParse /\ [][NextParse]_vars

\* ------------------------------------------ ticks on configured fallback lines
\* The fallback_topics lists _normalize_topic_lines can return: none, one
\* stripped non-empty line of up to MaxFallbackLen characters (delimiters
\* included), a line with nothing on one side of its delimiter, or a
\* well-formed line followed by a lone delimiter
MaxFallbackLen == 1
NormalizedLines ==
    { line \in UNION { [1..n -> LineChars] : n \in 1..MaxFallbackLen } : Strip(line) = line }
FallbackLists ==
    { << >>, << <<"x", Bar>> >>, << <<FullWidthBar, "x">> >>, << FallbackLine(2, 3), <<Bar>> >> }
    \cup { <<line>> : line \in NormalizedLines }

\* Conversation 1 is bound and active; the topic store is empty or holds one
\* enabled topic; the window is empty or holds one tracked message; the
\* provider is looked up per conversation
InitFallback ==
    /\ Parked
    /\ streamsDoc = touch_user_message(bind_stream(<< >>, 1, 1), 1, 1)
    /\ topicsDoc \in { [next_id |-> 1, items |-> << >>],
                       create_topic([next_id |-> 1, items |-> << >>], Draft, 1) }
    /\ messagesDoc \in { << >>, append_message(<< >>, 1, MessageSnapshot(1), 2) }
    /\ \E lines \in FallbackLists :
          config = [PluginSettings(TRUE, 500, 120, 1, "",
                        QuietHours(FALSE, DefaultQuietStart, DefaultQuietEnd))
                    EXCEPT !.fallback_topics = lines]
    /\ tk = [t \in Tasks |-> IF t = Sched THEN SchedulerTask ELSE IdleTask]
    /\ call = NoCall
    /\ ret = NoRet

\* The periodic tick, and /topic_initiate commands one at a time
NextFallback ==
    \/ Advance
    \/ _scheduler_loop
    \/ \E t \in CmdTasks :
        \/ Alone /\ \E o \in Origins : topic_initiate(t, o)
        \/ bind_stream_get(t)
        \/ bind_stream_put(t)
        \/ touch_user_message_get(t)
        \/ touch_user_message_put(t)
    \/ \E t \in Tasks :
        \/ lock_acquired(t)
        \/ _run_tick_streams(t)
        \/ _run_tick_topics(t)
        \/ _run_tick_stream(t)
        \/ llm_generate(t)
        \/ _send_message(t)
        \/ mark_bot_initiated_get(t)
        \/ mark_bot_initiated_put(t)
        \/ mark_topic_used_get(t)
        \/ mark_topic_used_put(t)
        \/ _run_tick_return(t)
SpecFallback == InitFallback /\ [][NextFallback]_vars

\* ------------------------------------------ topic commands on a fresh store
\* Nothing but /topic_create and /topic_delete handlers run, on a fresh store
InitTopics == PureParked /\ call = NoCall

NextTopics ==
    \/ Advance
    \/ \E t \in CmdTasks :
        \/ topic_create(t)
        \/ \E id \in 1..MaxTopics : topic_delete(t, id)
        \/ create_topic_get(t)
        \/ create_topic_put(t)
        \/ delete_topic_get(t)
        \/ delete_topic_put(t)

SpecTopics == InitTopics /\ [][NextTopics]_vars

\* ============================================================= properties

\* ---- the decision engine, under SpecDecide
DecQuietNow == is_active(call.quiet_hours, MinuteOfDay(call.now))
DecCooldownBlocks ==
    call.last_bot_initiate_ts > 0
    /\ call.now - call.last_bot_initiate_ts < call.cooldown_seconds
DecSilenceBlocks ==
    call.last_user_message_ts > 0
    /\ call.now - call.last_user_message_ts < call.silence_seconds
DecRandomBlocks == call.random_value >= call.trigger_probability

\* C3: a forced call succeeds with reason "force" exactly when the plugin is
\* enabled and the stream is active, whatever quiet hours, cooldown, silence
\* and the random draw say; a disabled plugin gives plugin_disabled and an
\* enabled plugin with an inactive stream gives stream_inactive.
C3_ForceKeepsOnlyHardGates ==
    (ret.done /\ call.force) =>
        /\ ret.value.should_send <=> (call.enabled /\ call.active)
        /\ (call.enabled /\ call.active) => ret.value.reason = "force"
        /\ ~call.enabled => ret.value.reason = "plugin_disabled"
        /\ (call.enabled /\ ~call.active) => ret.value.reason = "stream_inactive"

\* A forced call that succeeds although every soft gate would have blocked it
C3_Witness ==
    /\ ret.done /\ call.force /\ call.enabled /\ call.active
    /\ DecQuietNow /\ DecCooldownBlocks /\ DecSilenceBlocks /\ DecRandomBlocks
    /\ ret.value = InitiationDecision(TRUE, "force", 0)

\* C4: a non-forced call reports the first failing gate in the order
\* plugin_disabled, stream_inactive, quiet_hours, cooldown,
\* conversation_active, random_gate, succeeds with "ready" only when all of
\* them pass, and draws the random value only when the five earlier gates pass.
C4_FirstFailingGateWins ==
    (ret.done /\ ~call.force) =>
        LET r == ret.value.reason
            pass1 == call.enabled
            pass2 == pass1 /\ call.active
            pass3 == pass2 /\ ~DecQuietNow
            pass4 == pass3 /\ ~DecCooldownBlocks
            pass5 == pass4 /\ ~DecSilenceBlocks
            pass6 == pass5 /\ ~DecRandomBlocks
        IN  /\ (r = "plugin_disabled") <=> ~pass1
            /\ (r = "stream_inactive") <=> (pass1 /\ ~pass2)
            /\ (r = "quiet_hours") <=> (pass2 /\ ~pass3)
            /\ (r = "cooldown") <=> (pass3 /\ ~pass4)
            /\ (r = "conversation_active") <=> (pass4 /\ ~pass5)
            /\ (r = "random_gate") <=> (pass5 /\ ~pass6)
            /\ (r = "ready") <=> pass6
            /\ ret.value.should_send <=> pass6
            /\ ret.value.draws = (IF pass5 THEN 1 ELSE 0)

\* A non-forced call where cooldown, silence and the random gate would all
\* block: cooldown is reported and nothing is drawn
C4_Witness ==
    /\ ret.done /\ ~call.force /\ call.enabled /\ call.active /\ ~DecQuietNow
    /\ DecCooldownBlocks /\ DecSilenceBlocks /\ DecRandomBlocks
    /\ ret.value = InitiationDecision(FALSE, "cooldown", 0)

\* C5: once the enabled, active and quiet-hours gates have passed, a
\* non-forced call is blocked with reason cooldown exactly when there was a
\* previous proactive send and now - last_bot_initiate_ts < cooldown_seconds:
\* at a difference equal to cooldown_seconds it is not, one second less it is,
\* and a stream never sent to (timestamp 0) is never blocked by cooldown.
C5_CooldownBoundary ==
    (ret.done /\ ~call.force /\ call.enabled /\ call.active /\ ~DecQuietNow) =>
        /\ (ret.value.reason = "cooldown") <=>
              ( call.last_bot_initiate_ts > 0
                /\ call.now - call.last_bot_initiate_ts < call.cooldown_seconds )
        /\ (call.last_bot_initiate_ts > 0
            /\ call.now - call.last_bot_initiate_ts = call.cooldown_seconds)
              => ret.value.reason # "cooldown"
        /\ (call.last_bot_initiate_ts > 0
            /\ call.now - call.last_bot_initiate_ts = call.cooldown_seconds - 1)
              => ret.value.reason = "cooldown"
        /\ call.last_bot_initiate_ts = 0 => ret.value.reason # "cooldown"

\* The boundary itself: a positive cooldown that has elapsed exactly
C5_Witness ==
    /\ ret.done /\ ~call.force /\ call.enabled /\ call.active /\ ~DecQuietNow
    /\ call.last_bot_initiate_ts > 0 /\ call.cooldown_seconds > 0
    /\ call.now - call.last_bot_initiate_ts = call.cooldown_seconds
    /\ ret.value.reason # "cooldown"

\* C6: for a call that passed the cooldown gate, a non-forced decision is
\* blocked with reason conversation_active exactly when there was a previous
\* user message and now - last_user_message_ts < silence_seconds: equality is
\* not blocked, one second less is.
C6_SilenceBoundary ==
    (ret.done /\ ~call.force /\ call.enabled /\ call.active /\ ~DecQuietNow
        /\ ~DecCooldownBlocks) =>
        /\ (ret.value.reason = "conversation_active") <=>
              ( call.last_user_message_ts > 0
                /\ call.now - call.last_user_message_ts < call.silence_seconds )
        /\ (call.last_user_message_ts > 0
            /\ call.now - call.last_user_message_ts = call.silence_seconds)
              => ret.value.reason # "conversation_active"
        /\ (call.last_user_message_ts > 0
            /\ call.now - call.last_user_message_ts = call.silence_seconds - 1)
              => ret.value.reason = "conversation_active"

\* The boundary itself: the conversation has been idle for exactly the
\* positive silence threshold
C6_Witness ==
    /\ ret.done /\ ~call.force /\ call.enabled /\ call.active /\ ~DecQuietNow
    /\ ~DecCooldownBlocks
    /\ call.last_user_message_ts > 0 /\ call.silence_seconds > 0
    /\ call.now - call.last_user_message_ts = call.silence_seconds
    /\ ret.value.reason # "conversation_active"

\* ---- quiet hours, under SpecQuiet
QuietCurrent == call.hour * 60 + call.minute

\* C7: disabled quiet hours are never active; enabled, they are active on
\* [start, end) when start < end, on the complement (current >= start or
\* current < end) when start > end, and at every minute when start = end.
\* With start 23:00 and end 08:00, 23:30 and 03:00 are active and 12:00 is not.
C7_QuietHoursWindow ==
    ret.done =>
        /\ ~call.enabled => ~ret.value
        /\ (call.enabled /\ call.start_minutes < call.end_minutes) =>
              (ret.value <=> ( call.start_minutes <= QuietCurrent
                               /\ QuietCurrent < call.end_minutes ))
        /\ (call.enabled /\ call.start_minutes > call.end_minutes) =>
              (ret.value <=> ( QuietCurrent >= call.start_minutes
                               \/ QuietCurrent < call.end_minutes ))
        /\ (call.enabled /\ call.start_minutes = call.end_minutes) => ret.value
        /\ (call.enabled /\ call.start_minutes = 1380 /\ call.end_minutes = 480) =>
              /\ (call.hour = 23 /\ call.minute = 30) => ret.value
              /\ (call.hour = 3 /\ call.minute = 0) => ret.value
              /\ (call.hour = 12 /\ call.minute = 0) => ~ret.value

\* 03:00 inside the window that started at 23:00 the day before
C7_Witness ==
    /\ ret.done /\ call.enabled
    /\ call.start_minutes = 1380 /\ call.end_minutes = 480
    /\ call.hour = 3 /\ call.minute = 0
    /\ ret.value


\* ---- the tick as a whole (Spec)
\* The program points between loading the streams and returning the result
TickBodyPcs ==
    {"resolve", "load_topics", "gate", "llm", "send",
     "mark_get", "mark_put", "used_get", "used_put", "return"}

\* The program points inside the loop over the candidate streams
LoopPcs == {"gate", "llm", "send", "mark_get", "mark_put", "used_get", "used_put"}

InTickBody(t) == tk[t].pc \in TickBodyPcs

\* C1: at most one tick executes at a time.  Whatever the interleaving of the
\* scheduler loop and the /topic_initiate commands, no two tasks are inside
\* the tick body (from loading the streams to returning the result) at once,
\* and the task inside it is the one that holds the tick lock; a second tick
\* waits for the lock until the first has returned or been aborted.
C1_AtMostOneTick ==
    \A t, u \in Tasks :
        /\ InTickBody(t) => tick_lock = t
        /\ InTickBody(t) /\ InTickBody(u) => t = u

\* A periodic tick is sending while a forced tick waits for the lock
C1_Witness ==
    \E u \in CmdTasks :
        /\ tk[Sched].pc = "send"
        /\ tk[u].pc = "lock_wait" /\ tk[u].force
        /\ lock_waiters = << u >>

\* C2: a tick's candidate set holds only streams whose persisted active flag
\* is true when the set is resolved.  On the step that resolves it, a periodic
\* tick gets exactly the active streams, each once, and a forced tick gets its
\* target if that is persisted and active and nothing otherwise: a missing or
\* inactive target gives the empty set.
C2_OnlyActiveStreamsAreCandidates ==
    [][\A t \in Tasks :
         tk[t].pc = "resolve" /\ tk'[t].pc = "load_topics" =>
            LET streams == tk'[t].streams
                target == tk[t].target
                persisted_active == { o \in DOMAIN streamsDoc : streamsDoc[o].active }
                chosen == { streams[i].unified_msg_origin : i \in 1..Len(streams) }
            IN  /\ \A i \in 1..Len(streams) : streams[i].active
                /\ Cardinality(chosen) = Len(streams)
                /\ chosen \subseteq persisted_active
                /\ target = NoOrigin => chosen = persisted_active
                /\ target # NoOrigin => chosen = persisted_active \cap {target}]_vars

\* A forced tick has resolved the empty set: its target was unbound between
\* the command's bind and the tick
C2_Witness ==
    \E t \in CmdTasks :
        /\ tk[t].pc = "load_topics" /\ tk[t].force
        /\ tk[t].streams = << >>
        /\ tk[t].target \in DOMAIN streamsDoc
        /\ ~streamsDoc[tk[t].target].active


\* The place of a session among the tick's candidate streams
StreamIndex(streams, umo) ==
    CHOOSE i \in 1..Len(streams) : streams[i].unified_msg_origin = umo

\* The reasons recorded so far name streams already processed, each once, in
\* the order of the iteration
ReasonsInOrder(L, done) ==
    /\ \A r \in 1..Len(L.reasons) :
          \E i \in 1..done : L.streams[i].unified_msg_origin = L.reasons[r].session
    /\ \A r, q \in 1..Len(L.reasons) :
          r < q => StreamIndex(L.streams, L.reasons[r].session)
                     < StreamIndex(L.streams, L.reasons[q].session)

\* Every stream processed so far has a recorded reason or a message sent by
\* this tick
OneOutcomeEach(L, done) ==
    /\ L.sent_count + Len(L.reasons) = done
    /\ \A i \in 1..done :
          \/ \E r \in 1..Len(L.reasons) :
                L.reasons[r].session = L.streams[i].unified_msg_origin
          \/ \E k \in 1..Len(outbox) :
                outbox[k] = [to |-> L.streams[i].unified_msg_origin, now |-> L.now]

\* C10: one stream's failure never blocks the others.  In a tick not aborted
\* by the disabled check, while the loop is at stream idx the idx-1 earlier
\* streams each have exactly one outcome, and when the tick returns every
\* candidate has one: sent_count + len(reasons) is the number of candidates
\* and the reasons keep the iteration order.  A tick without candidates
\* returns (0, []).
C10_EveryCandidateHasOneOutcome ==
    \A t \in Tasks :
        LET L == tk[t]
        IN  /\ L.pc \in LoopPcs =>
                 /\ L.idx \in 1..Len(L.streams)
                 /\ OneOutcomeEach(L, L.idx - 1)
                 /\ ReasonsInOrder(L, L.idx - 1)
            /\ L.pc = "return" /\ (_settings.enabled \/ L.force) =>
                 /\ OneOutcomeEach(L, Len(L.streams))
                 /\ ReasonsInOrder(L, Len(L.streams))
                 /\ L.streams = << >> => L.sent_count = 0 /\ L.reasons = << >>

\* A tick over two streams returns: the send to the first failed, the send to
\* the second went out
C10_Witness ==
    \E t \in Tasks :
        LET L == tk[t]
        IN  /\ L.pc = "return" /\ Len(L.streams) = 2
            /\ L.sent_count = 1 /\ Len(L.reasons) = 1
            /\ L.reasons[1].session = L.streams[1].unified_msg_origin
            /\ L.reasons[1].reason = "send_failed"
            /\ \E k \in 1..Len(outbox) :
                  outbox[k] = [to |-> L.streams[2].unified_msg_origin, now |-> L.now]


\* ---- what a send leaves in the store (Spec)
\* The program points of mark_bot_initiated and mark_topic_used
MarkPcs == {"mark_get", "mark_put", "used_get", "used_put"}

\* The stream the loop of a tick is at
CurrentStream(L) == L.streams[L.idx].unified_msg_origin

\* The step on which the transport fails for the current stream of t
SendFails(t) ==
    /\ tk[t].pc = "send"
    /\ tk'[t].reasons # tk[t].reasons

\* C8 (as the code has it): when the transport fails for a stream, that
\* stream gets the reason send_failed, sent_count is not incremented, and the
\* tick writes nothing for it: the failing step leaves every persisted
\* document as it is, and mark_bot_initiated and mark_topic_used run only for
\* a stream whose message this tick has sent, never for one with a recorded
\* reason.
C8_FailedSendWritesNothing ==
    /\ [][\A t \in Tasks :
            SendFails(t) =>
               /\ kv' = kv /\ outbox' = outbox
               /\ tk'[t].sent_count = tk[t].sent_count
               /\ tk'[t].reasons =
                     Append(tk[t].reasons,
                            [session |-> CurrentStream(tk[t]), reason |-> "send_failed",
                             topic_id |-> tk[t].selected.topic_id])
               /\ tk'[t].pc \notin MarkPcs]_vars
    /\ [](\A t \in Tasks :
            tk[t].pc \in MarkPcs =>
               /\ \E k \in 1..Len(outbox) :
                     outbox[k] = [to |-> CurrentStream(tk[t]), now |-> tk[t].now]
               /\ \A r \in 1..Len(tk[t].reasons) :
                     tk[t].reasons[r].session # CurrentStream(tk[t]))

\* A tick returns with a send_failed reason for a stream whose persisted
\* record it never wrote
C8_Witness ==
    \E t \in Tasks : \E r \in 1..Len(tk[t].reasons) :
        /\ tk[t].pc = "return"
        /\ tk[t].reasons[r].reason = "send_failed"
        /\ tk[t].reasons[r].topic_id # NullId
        /\ streamsDoc[tk[t].reasons[r].session].last_bot_initiate_ts = 0

\* The run's only command bound the second origin, and has ended
OnlySecondOriginBound ==
    /\ started = 1
    /\ \A u \in CmdTasks : tk[u].pc = "idle"
    /\ DOMAIN streamsDoc = Origins

\* C8 as stated: after a periodic tick in which the transport failed for a
\* stream, that stream's last_bot_initiate_ts and updated_at and the selected
\* topic's use_count and last_used_at are what they were when the tick loaded
\* them.  (Restricted to runs in which no command ran while the tick did.)
C8_FailedSendLeavesStateAsBefore ==
    LET L == tk[Sched]
    IN  OnlySecondOriginBound /\ L.pc = "return" =>
          \A r \in 1..Len(L.reasons) :
             L.reasons[r].reason = "send_failed" =>
                LET umo == L.reasons[r].session
                    before == L.streams[StreamIndex(L.streams, umo)]
                    id == L.reasons[r].topic_id
                IN  /\ streamsDoc[umo].last_bot_initiate_ts = before.last_bot_initiate_ts
                    /\ streamsDoc[umo].updated_at = before.updated_at
                    /\ id # NullId =>
                          \A k \in 1..Len(L.topics) :
                             L.topics[k].id = id =>
                                /\ id \in DOMAIN topicsDoc.items
                                /\ topicsDoc.items[id].use_count = L.topics[k].use_count
                                /\ topicsDoc.items[id].last_used_at = L.topics[k].last_used_at

\* The step on which a tick has finished a stream it sent a message to
SendCompleted(t) ==
    /\ tk[t].pc \in MarkPcs
    /\ tk'[t].sent_count = tk[t].sent_count + 1

\* C9 as stated, for the stream: once a tick with timestamp now has sent to a
\* stream and finished with it, the stream's persisted last_bot_initiate_ts
\* is now.
C9_SendPersistsInitiateTs ==
    [][\A t \in Tasks :
         SendCompleted(t) =>
            /\ CurrentStream(tk[t]) \in DOMAIN streamsDoc'
            /\ streamsDoc'[CurrentStream(tk[t])].last_bot_initiate_ts = tk[t].now]_vars


\* ---- the disabled plugin (Spec)
\* C11: with the plugin disabled a periodic tick aborts at once: it is never
\* at a program point of the tick body other than its return, it returns
\* sent_count 0 with exactly one reason, and none of its steps changes a
\* persisted document or sends a message.  A forced tick sends nothing
\* either: each of its candidates is rejected with plugin_disabled, and no
\* message is ever sent while the plugin is disabled.
C11_DisabledTickAborts ==
    /\ [](~_settings.enabled =>
            /\ outbox = << >>
            /\ tk[Sched].pc \in {"start", "lock_wait", "return", "sleep"}
            /\ tk[Sched].pc = "return" =>
                  tk[Sched].sent_count = 0 /\ tk[Sched].reasons = << AbortReason >>
            /\ \A t \in CmdTasks :
                  InTickBody(t) =>
                     /\ tk[t].pc \in {"resolve", "load_topics", "gate", "return"}
                     /\ tk[t].sent_count = 0
                     /\ \A r \in 1..Len(tk[t].reasons) :
                           tk[t].reasons[r].reason = "plugin_disabled")
    /\ [][~_settings.enabled =>
            \A t \in Tasks :
               (tk[t].pc \in TickBodyPcs \cup {"start", "sleep", "lock_wait"}
                  /\ tk'[t] # tk[t]) => kv' = kv /\ outbox' = outbox]_vars

\* The plugin is disabled: the periodic tick has aborted and gone to sleep,
\* and a forced tick returns with its one candidate rejected
C11_Witness ==
    /\ ~_settings.enabled
    /\ tk[Sched].pc = "sleep"
    /\ \E t \in CmdTasks :
          /\ tk[t].pc = "return" /\ tk[t].force
          /\ Len(tk[t].reasons) = 1
          /\ tk[t].reasons[1].reason = "plugin_disabled"


\* ---- topic ids (SpecTopics)
\* C12 as stated, for the uniqueness of ids: no two /topic_create commands
\* ever return the same id.  (A create returns the id it took when it read
\* the topics document; two creates that have both read are about to return.)
C12_CreatedIdsDistinct ==
    \A t, u \in CmdTasks :
        (t # u /\ tk[t].pc = "create_put" /\ tk[u].pc = "create_put")
            => tk[t].topic_id # tk[u].topic_id


\* ---- the use counter (Spec)
\* C13 as stated: while a topic exists, its use_count never decreases in the
\* persisted topics document.
C13_UseCountNeverDecreases ==
    [][\A id \in DOMAIN topicsDoc.items \cap DOMAIN topicsDoc'.items :
          topicsDoc'.items[id].use_count >= topicsDoc.items[id].use_count]_vars


\* ---- rebinding (Spec)
RebindCmds == {"topic_bind", "topic_initiate"}

\* The step of task t from pc `from` to pc `to`
Steps(t, from, to) == tk[t].pc = from /\ tk'[t].pc = to

\* C14, as the code has it: when the bind command or the force-initiate
\* auto-bind reaches an origin that already has a record, bind_stream builds a
\* record with the stored last_user_message_ts, last_bot_initiate_ts and
\* created_at, active = true and updated_at = the command's time, leaves every
\* other origin's record alone and writes that document; the
\* touch_user_message that the same command awaits next keeps
\* last_bot_initiate_ts, created_at and active of the record it reads and sets
\* last_user_message_ts and updated_at to the command's time.
C14_RebindKeepsInitiateAndCreation ==
    [][\A t \in CmdTasks : tk[t].cmd \in RebindCmds =>
        LET o == tk[t].umo
            old == streamsDoc[o]
            new == tk'[t].bucket[o]
        IN  /\ (Steps(t, "bind_get", "bind_put") /\ o \in DOMAIN streamsDoc) =>
                /\ new.last_user_message_ts = old.last_user_message_ts
                /\ new.last_bot_initiate_ts = old.last_bot_initiate_ts
                /\ new.created_at = old.created_at
                /\ new.active
                /\ new.updated_at = tk[t].now
                /\ DOMAIN tk'[t].bucket = DOMAIN streamsDoc
                /\ \A p \in DOMAIN streamsDoc \ {o} : tk'[t].bucket[p] = streamsDoc[p]
            /\ Steps(t, "bind_put", "touch_get") => streamsDoc' = tk[t].bucket
            /\ Steps(t, "touch_get", "touch_put") =>
                /\ new.last_user_message_ts = tk[t].now
                /\ new.updated_at = tk[t].now
                /\ new.last_bot_initiate_ts = old.last_bot_initiate_ts
                /\ new.created_at = old.created_at
                /\ new.active = old.active
                /\ \A p \in DOMAIN streamsDoc \ {o} : tk'[t].bucket[p] = streamsDoc[p]
            /\ (tk[t].pc = "touch_put" /\ tk'[t].pc # "touch_put") =>
                streamsDoc' = tk[t].bucket]_vars

\* A rebind has acted on an origin that was created earlier and has been
\* initiated to: the record is active, stamped with the command's time, and
\* still carries the earlier created_at and last_bot_initiate_ts
C14_Witness ==
    \E t \in CmdTasks :
        /\ tk[t].cmd \in RebindCmds
        /\ tk[t].pc = "touch_put"
        /\ tk[t].umo \in DOMAIN streamsDoc
        /\ streamsDoc[tk[t].umo].active
        /\ streamsDoc[tk[t].umo].updated_at = tk[t].now
        /\ streamsDoc[tk[t].umo].created_at < tk[t].now
        /\ streamsDoc[tk[t].umo].last_bot_initiate_ts > 0
        /\ tk[t].bucket[tk[t].umo].last_bot_initiate_ts > 0

\* C14 as stated: the write that ends the rebind of an existing origin leaves
\* its last_user_message_ts as it was.
C14_RebindKeepsLastUserMessage ==
    [][\A t \in CmdTasks :
          (/\ tk[t].cmd \in RebindCmds
           /\ tk[t].pc = "touch_put"
           /\ tk[t].umo \in DOMAIN streamsDoc)
              => streamsDoc'[tk[t].umo].last_user_message_ts
                     = streamsDoc[tk[t].umo].last_user_message_ts]_vars


\* ---- unbinding (Spec)
\* C15 as stated: a stream record, once persisted, exists in every later state
\* (no handler and no tick calls the bulk reset).
C15_BoundRecordStays == [][DOMAIN streamsDoc \subseteq DOMAIN streamsDoc']_vars


\* ---- the message window (SpecWindow)
SeqRange(s) == { s[i] : i \in DOMAIN s }
StoredQueue ==
    IF WindowOrigin \in DOMAIN messagesDoc THEN messagesDoc[WindowOrigin] ELSE << >>

\* C16: after any sequence of append_message calls with window N, the stream
\* holds exactly min(appended, N) snapshots, all of them appended ones and
\* none older than a dropped one, and list_recent_messages returns exactly
\* those, newest first.
C16_WindowKeepsNewest ==
    LET kept == SeqRange(StoredQueue)
        all == SeqRange(call.appended)
    IN  /\ Len(StoredQueue) = Min(Len(call.appended), call.max_records)
        /\ Cardinality(kept) = Len(StoredQueue)
        /\ kept \subseteq all
        /\ \A a \in all \ kept : \A r \in kept : a.created_at <= r.created_at
        /\ ret.done =>
            /\ Len(ret.value) = Len(StoredQueue)
            /\ SeqRange(ret.value) = kept
            /\ \A i, j \in DOMAIN ret.value :
                  i < j => ret.value[i].created_at >= ret.value[j].created_at

\* More was appended than the window holds, out of time order, a strictly
\* older snapshot was dropped, and the read returned two snapshots of
\* different seconds
C16_Witness ==
    /\ ret.done
    /\ call.max_records >= 2
    /\ Len(call.appended) > call.max_records
    /\ \E i \in 1..(Len(call.appended) - 1) :
          call.appended[i].created_at > call.appended[i + 1].created_at
    /\ \E a \in SeqRange(call.appended) \ SeqRange(StoredQueue) :
          \A r \in SeqRange(StoredQueue) : a.created_at < r.created_at
    /\ ret.value[1].created_at > ret.value[2].created_at


\* ---- tracked messages (SpecTrack)
\* C17 as stated: a stored snapshot stays in its stream's list unless that
\* list is at the window cap.
C17_SnapshotStays ==
    [][\A o \in DOMAIN messagesDoc :
          Len(messagesDoc[o]) < _settings.message_window_size =>
              /\ o \in DOMAIN messagesDoc'
              /\ \A i \in DOMAIN messagesDoc[o] :
                    \E j \in DOMAIN messagesDoc'[o] : messagesDoc'[o][j] = messagesDoc[o][i]]_vars


\* ---- force-initiate, one command at a time (SpecInitiate)
Forced(t) == tk[t].cmd = "topic_initiate" /\ InTickBody(t)

\* `if sent_count > 0:` in topic_initiate: the success reply is given
ReportsSuccess(t) == tk[t].pc = "return" /\ tk[t].sent_count > 0

TransportFailed(t) ==
    \E r \in DOMAIN tk[t].reasons : tk[t].reasons[r].reason = "send_failed"

\* C18: with the plugin enabled and one persisted enabled topic, a
\* force-initiate whose transport works ends with exactly one send, to the
\* command's stream and stamped with the tick's time, whatever the quiet hours,
\* cooldown, silence and random draw; the topic's use_count then equals the
\* number of messages sent so far (1 after the first command), the stream's
\* last_bot_initiate_ts is the tick's time, and the command reports success.
\* A forced tick never has more than one candidate, and a command never sends
\* more than once.
C18_ForceInitiateSendsOnce ==
    /\ Len(outbox) <= started
    /\ \A t \in CmdTasks : Forced(t) =>
        /\ Len(tk[t].streams) <= 1
        /\ tk[t].sent_count <= 1
        /\ (tk[t].pc = "return" /\ _settings.enabled /\ ~TransportFailed(t)) =>
            /\ ReportsSuccess(t)
            /\ tk[t].sent_count = 1
            /\ tk[t].reasons = << >>
            /\ outbox # << >>
            /\ outbox[Len(outbox)] = [to |-> tk[t].umo, now |-> tk[t].now]
            /\ DOMAIN topicsDoc.items = {1}
            /\ topicsDoc.items[1].use_count = Len(outbox)
            /\ topicsDoc.items[1].last_used_at = tk[t].now
            /\ streamsDoc[tk[t].umo].last_bot_initiate_ts = tk[t].now

\* The first command is a force-initiate in the conversation bound earlier,
\* inside quiet hours and with the silence time not yet over; it has sent its
\* one message and the topic's use_count is 1
C18_Witness ==
    \E t \in CmdTasks :
        /\ Forced(t) /\ ReportsSuccess(t)
        /\ started = 1
        /\ tk[t].umo = 1
        /\ streamsDoc[1].created_at < tk[t].now
        /\ is_active(_settings.quiet_hours, MinuteOfDay(tk[t].now))
        /\ tk[t].now - streamsDoc[1].last_user_message_ts < _settings.silence_seconds
        /\ Len(outbox) = 1
        /\ topicsDoc.items[1].use_count = 1
        /\ streamsDoc[1].last_bot_initiate_ts = tk[t].now


\* C19: a force-initiate binds its conversation before the forced tick
\* resolves its candidates.  When the tick is about to resolve them, the
\* conversation has a persisted record with active = true, stamped by this
\* command; the tick's candidate list is then exactly that stream, the stream
\* gets exactly one outcome (a send or one skip reason), and its record is
\* still active when the tick returns.
C19_AutoBindBeforeEvaluate ==
    \A t \in CmdTasks : Forced(t) =>
        LET o == tk[t].umo
        IN  /\ tk[t].target = o
            /\ o \in DOMAIN streamsDoc
            /\ streamsDoc[o].active
            /\ streamsDoc[o].last_user_message_ts = tk[t].now
            /\ tk[t].pc # "resolve" =>
                /\ Len(tk[t].streams) = 1
                /\ tk[t].streams[1].unified_msg_origin = o
                /\ tk[t].streams[1].active
            /\ tk[t].pc = "return" => tk[t].sent_count + Len(tk[t].reasons) = 1

\* Force-initiate in the conversation that was never bound: its record was
\* created by this command, the tick evaluated it and sent
C19_Witness ==
    \E t \in CmdTasks :
        /\ Forced(t) /\ ReportsSuccess(t)
        /\ tk[t].umo = 2
        /\ streamsDoc[2].created_at = tk[t].now
        /\ streamsDoc[2].active
        /\ tk[t].streams[1].unified_msg_origin = 2
        /\ outbox[Len(outbox)].to = 2


\* ---- content building (SpecContent)
\* f"{msg.sender_name}: {msg.content}" for the drawn recent messages
ContentDialogue ==
    [i \in 1..Len(call.recent) |-> call.recent[i].sender_name_len + 2 + call.recent[i].content_len]
ContentFallback ==
    _truncate_text(render_fallback_content(call.topic, ContentDialogue), _settings.max_message_chars)
ContentResolved == _settings.chat_provider_id # "" \/ call.lookup = "found"
ContentCompletion == _truncate_text(call.completion_len, _settings.max_message_chars)
ContentUsable == ContentResolved /\ ~call.raised /\ ContentCompletion > 0

\* C20: the content is the truncated completion text exactly when a provider
\* id is resolved, the completion call does not raise and its stripped,
\* truncated text is non-empty; otherwise (no provider, lookup raises,
\* completion raises, empty output) it is the truncated fallback text.  In
\* every case content building ends with a non-empty content within the
\* character cap and the tick goes on to send it.
C20_ContentDegradesToFallback ==
    ret.done =>
        /\ ret.pc = "send"
        /\ ret.value.len > 0
        /\ ret.value.len <= _settings.max_message_chars
        /\ ContentUsable => ret.value = Content("llm", ContentCompletion)
        /\ ~ContentUsable => ret.value = Content("fallback", ContentFallback)

\* The host's lookup found a provider, the completion call raised, and the
\* fallback text was sent on
C20_Witness ==
    /\ ret.done
    /\ _settings.chat_provider_id = ""
    /\ call.lookup = "found"
    /\ call.raised
    /\ call.completion_len > 0
    /\ ret.pc = "send"
    /\ ret.value.source = "fallback"


\* ---- the scheduler loop (SpecLoop)
SchedInTick == tk[Sched].pc \in TickBodyPcs
SchedWaiting == tk[Sched].pc = "sleep"
LastLoopDeadline == 1 + MaxLoopTicks * MinTickInterval

\* C21: a periodic tick that raises does not end the scheduler loop.  While
\* no shutdown is signalled the scheduler task has not ended; when it waits
\* between ticks the tick lock is free, also after a tick that raised; the
\* step that handles the exception releases the lock and starts the wait of
\* one tick interval; and from that wait, after any number of failed ticks,
\* the next periodic tick starts unless shutdown is signalled.
C21_FailedTickDoesNotEndLoop ==
    /\ [](~shutdown_event => tk[Sched].pc # "done")
    /\ [](SchedWaiting => tick_lock # Sched)
    /\ [][errors_logged' # errors_logged =>
            /\ tick_lock = Sched /\ tick_lock' = NoTask
            /\ tk'[Sched].pc = "sleep"
            /\ tk'[Sched].deadline = clock + _settings.tick_interval_seconds]_vars
    /\ \A n \in 1..(MaxLoopTicks + 1) :
          (errors_logged = n /\ SchedWaiting /\ tk[Sched].deadline <= LastLoopDeadline)
              ~> (SchedInTick \/ shutdown_event)

\* Two periodic ticks have failed and a third is running
C21_Witness ==
    /\ errors_logged = 2
    /\ ~shutdown_event
    /\ tk[Sched].pc = "resolve"
    /\ tick_lock = Sched
    /\ tk[Sched].now = 1 + 2 * MinTickInterval


\* terminate() has been called and has not returned yet
Terminating == \E t \in CmdTasks : tk[t].cmd = "terminate"
\* terminate() has returned
Terminated == shutdown_event /\ ~Terminating

\* C22: once terminate() has been called the shutdown event is set and the
\* call returns only when the scheduler task has ended; it does return,
\* whether the loop was waiting between ticks or inside a tick, with no
\* timer firing in between; an ended scheduler task neither holds nor waits
\* for the tick lock; and after terminate() has returned the scheduler task
\* takes no step, sends nothing and writes nothing.
C22_TeardownEndsScheduler ==
    /\ [](Terminating => shutdown_event)
    /\ [](Terminated => tk[Sched].pc = "done")
    /\ [](tk[Sched].pc = "done" =>
            /\ tick_lock # Sched
            /\ \A i \in DOMAIN lock_waiters : lock_waiters[i] # Sched)
    /\ [][shutdown_event => clock' = clock]_vars
    /\ [][Terminated => (tk'[Sched] = tk[Sched] /\ outbox' = outbox /\ kv' = kv)]_vars
    /\ Terminating ~> Terminated

\* terminate() has returned after interrupting a tick between its send and
\* its marks: a message went out, no exception was logged, the topic is
\* still unused and the lock is free
C22_Witness ==
    /\ Terminated
    /\ tk[Sched].pc = "done"
    /\ tick_lock = NoTask
    /\ errors_logged = 0
    /\ Len(outbox) = 1
    /\ topicsDoc.items[1].use_count = 0


\* ---- a periodic tick that hangs (SpecHang)
\* The periodic tick is inside its completion call or its send, for ever
SchedHung == tk[Sched].pc \in {"llm", "send"}

\* The commands that run no tick
NoTickCmds ==
    {"topic_bind", "topic_unbind", "topic_status", "topic_create", "topic_list",
     "topic_delete", "_track_messages"}

\* C23, as the code has it: a periodic tick blocked in a completion call or
\* a send keeps the tick lock and stays blocked; every command that runs no
\* tick (bind, unbind, status, create, list and delete topic, message
\* tracking) handled meanwhile runs to completion; a force-initiate handled
\* meanwhile completes its auto-bind and then waits for the tick lock, where
\* it stays as long as the tick is blocked.
C23_HangStallsOnlyTicks ==
    /\ [](SchedHung => tick_lock = Sched)
    /\ [][SchedHung => (tk'[Sched] = tk[Sched] /\ tick_lock' = Sched)]_vars
    /\ [][\A t \in CmdTasks :
            (SchedHung /\ tk[t].pc = "lock_wait") => tk'[t] = tk[t]]_vars
    /\ \A t \in CmdTasks :
          /\ (SchedHung /\ tk[t].cmd \in NoTickCmds) ~> (tk[t].pc = "idle")
          /\ (SchedHung /\ tk[t].cmd = "topic_initiate") ~> (tk[t].pc = "lock_wait")

\* The periodic tick is blocked in its send; a topic was created after the
\* tick loaded its topics and that command has ended; a force-initiate waits
\* for the lock
C23_Witness ==
    /\ tk[Sched].pc = "send"
    /\ Len(tk[Sched].topics) = 1
    /\ DOMAIN topicsDoc.items = {1, 2}
    /\ started = 2
    /\ \E t, u \in CmdTasks :
          /\ tk[t].cmd = "topic_initiate" /\ tk[t].pc = "lock_wait"
          /\ tk[u].pc = "idle"
    /\ lock_waiters # << >>

\* C23 as stated: a force-initiate handled while the periodic tick is blocked
\* runs to completion.
C23_HangStallsNoCommand ==
    \A t \in CmdTasks :
        (SchedHung /\ tk[t].cmd = "topic_initiate") ~> (tk[t].pc = "idle")


\* ---- the settings resolver (SpecFromConfig)
\* lo <= x on Python numbers
py_ge(x, lo) == x.k \in {"huge", "inf"} \/ (x.k = "fin" /\ x.m >= lo)

\* C24 as stated: from_config does not raise, and its result has
\* tick_interval_seconds >= 60, 0 <= trigger_probability <= 1,
\* cooldown_seconds >= 0, silence_seconds >= 0, message_window_size >= 1,
\* max_message_chars >= 20 and quiet-hours start and end in 0..1439.
C24_FromConfigTotalAndClamped ==
    ret.done =>
        /\ ~ret.value.raised
        /\ py_ge(ret.value.tick_interval_seconds, 60 * 1000)
        /\ ret.value.trigger_probability.k = "fin"
        /\ ret.value.trigger_probability.m \in 0..1000
        /\ py_ge(ret.value.cooldown_seconds, 0)
        /\ py_ge(ret.value.silence_seconds, 0)
        /\ py_ge(ret.value.message_window_size, 1000)
        /\ py_ge(ret.value.max_message_chars, 20 * 1000)
        /\ ret.value.start_minutes \in 0..(MinutesPerDay - 1)
        /\ ret.value.end_minutes \in 0..(MinutesPerDay - 1)


\* ---- message tracking (SpecMessages)
\* Handler t of a plain message finishes: append_message has written
TrackDone(t) ==
    tk[t].cmd = "_track_messages" /\ tk[t].pc = "append_put" /\ tk'[t].pc = "idle"

\* C25 as stated: when the handler of a non-empty, non-command message in a
\* bound active stream has finished, the stream's last_user_message_ts is the
\* message time (or that of a later message) and the snapshot is in the
\* stream's window; the handler of an empty or command message, or of a
\* message whose origin is unbound or deactivated, returns without changing
\* the streams or the messages document.
C25_TrackingChangesExactly ==
    [][/\ \A t \in CmdTasks :
            TrackDone(t) =>
                /\ tk[t].umo \in DOMAIN streamsDoc'
                /\ streamsDoc'[tk[t].umo].last_user_message_ts >= tk[t].now
                /\ tk[t].umo \in DOMAIN messagesDoc'
                /\ MessageSnapshot(tk[t].now) \in SeqRange(messagesDoc'[tk[t].umo])
       /\ (started' # started /\ tk' = tk) => UNCHANGED <<streamsDoc, messagesDoc>>
       /\ \A t \in CmdTasks :
            (/\ tk[t].pc = "track_get" /\ tk'[t] # tk[t]
             /\ (tk[t].umo \notin DOMAIN streamsDoc \/ ~streamsDoc[tk[t].umo].active))
                => (tk'[t].pc = "idle" /\ UNCHANGED <<streamsDoc, messagesDoc>>)]_vars


\* ---- the weighted draw (SpecPick)
\* acc after i topics of the walk, from the weights the call computed
RECURSIVE PickAcc(_)
PickAcc(i) == IF i = 0 THEN 0 ELSE PickAcc(i - 1) + ret.weights[i]
PickTotal == PickAcc(Len(call.topics))
\* pick <= acc after i topics, with pick = random() * total
PickMet(i) == call.random_value * PickTotal <= 1000 * PickAcc(i)

\* C26: for a non-empty topic list and every draw in [0, total), the total is
\* positive and pick_topic returns the first topic in list order whose
\* cumulative weight meets or exceeds the draw; it has a non-null topic_id,
\* and the fallback lines play no part in the result.
C26_WeightedDrawPicksFirstMet ==
    ret.done =>
        /\ PickTotal > 0
        /\ \A i \in DOMAIN call.topics : ret.weights[i] > 0
        /\ \E i \in DOMAIN call.topics :
              /\ PickMet(i)
              /\ \A j \in 1..(i - 1) : ~PickMet(j)
              /\ ret.value = SelectedTopic(call.topics[i].id, call.topics[i].title_len,
                                           call.topics[i].desc_len)
        /\ ret.value.topic_id # NullId
        /\ ret.value = pick_topic(call.topics, << >>, call.now, call.random_value)

\* A draw that passes the first topic and stops at the second of three, with
\* fallback lines configured
C26_Witness ==
    /\ ret.done
    /\ Len(call.topics) = 3
    /\ call.fallback_lines # << >>
    /\ ~PickMet(1)
    /\ PickMet(2)
    /\ ret.value.topic_id = 2

\* C27: a topic's weight is at least its priority and at most three times its
\* priority (weights in units of 1/86400); a never-used topic weighs exactly
\* twice its priority, and strictly more than a topic of the same priority
\* that was used less than 24 hours before now.
C27_WeightWithinPriorityBounds ==
    ret.done =>
        \A i \in DOMAIN call.topics :
            LET topic == call.topics[i]
            IN  /\ ret.weights[i] >= topic.priority * SecondsPerDay
                /\ ret.weights[i] <= 3 * topic.priority * SecondsPerDay
                /\ topic.last_used_at = 0 => ret.weights[i] = 2 * topic.priority * SecondsPerDay
                /\ \A j \in DOMAIN call.topics :
                      (/\ topic.last_used_at = 0
                       /\ call.topics[j].priority = topic.priority
                       /\ call.topics[j].last_used_at # 0
                       /\ call.now - call.topics[j].last_used_at < SecondsPerDay)
                          => ret.weights[i] > ret.weights[j]

\* A never-used topic beside one of the same priority used an hour ago and one
\* used more than two days ago
C27_Witness ==
    /\ ret.done
    /\ Len(call.topics) = 3
    /\ call.topics[1].last_used_at = 0
    /\ call.topics[2].last_used_at = call.now - 3600
    /\ call.topics[2].priority = call.topics[1].priority
    /\ call.topics[3].last_used_at = call.now - 200000
    /\ ret.weights[3] = 3 * call.topics[3].priority * SecondsPerDay


\* ---- fallback lines (SpecParse)
Blank(line) == \A i \in 1..Len(line) : line[i] = Space
Delimiters == {Bar, FullWidthBar}
HasDelimiter(line) == \E i \in 1..Len(line) : line[i] \in Delimiters
\* The line cut at position i: the text before it and the text after it, trimmed
CutAt(line, i) ==
    TopicSeed(Strip(SubSeq(line, 1, i - 1)), Strip(SubSeq(line, i + 1, Len(line))))
\* Position of the first delimiter of either kind
FirstDelimiter(line) ==
    CHOOSE i \in 1..Len(line) :
        line[i] \in Delimiters /\ \A j \in 1..(i - 1) : line[j] \notin Delimiters
\* The cut at the first occurrence of d has text on both sides
CutsWell(line, d) ==
    /\ Contains(line, d)
    /\ CutAt(line, FirstIndex(line, d)).title # << >>
    /\ CutAt(line, FirstIndex(line, d)).description # << >>

\* C28 as stated: a blank line yields no candidate, a non-blank line with a
\* "|" or full-width delimiter yields the trimmed texts before and after its
\* first delimiter, and a line without a delimiter yields the whole trimmed
\* line as title with an empty description.
C28_LineSplitOnFirstDelimiter ==
    ret.done =>
        IF Blank(call.line) THEN ~ret.value.found
        ELSE IF HasDelimiter(call.line)
             THEN ret.value = CutAt(call.line, FirstDelimiter(call.line))
             ELSE ret.value = TopicSeed(Strip(call.line), << >>)

\* C28 amended: a blank line yields no candidate; a line is cut at its first
\* "|" when text stands on both sides of it, failing that at its first
\* full-width delimiter when text stands on both sides of that; every other
\* non-blank line (no delimiter, or nothing on one side of it) yields the
\* whole trimmed line as title with an empty description.
C28_LineSplitWhenBothSidesFilled ==
    ret.done =>
        IF Blank(call.line) THEN ~ret.value.found
        ELSE IF CutsWell(call.line, Bar)
             THEN ret.value = CutAt(call.line, FirstIndex(call.line, Bar))
        ELSE IF CutsWell(call.line, FullWidthBar)
             THEN ret.value = CutAt(call.line, FirstIndex(call.line, FullWidthBar))
        ELSE ret.value = TopicSeed(Strip(call.line), << >>)

\* A line with two "|" and spaces around the texts is cut at the first one
C28_Witness ==
    /\ ret.done
    /\ call.line = <<"x", Space, Bar, "x", Bar>>
    /\ ret.value = TopicSeed(<<"x">>, <<"x", Bar>>)


\* ---- the character cap (SpecContent)
\* The text content building starts from: the stripped completion for a
\* language-model content, the rendered fallback text otherwise
ContentRawLen ==
    IF ret.value.source = "llm" THEN call.completion_len
    ELSE render_fallback_content(call.topic, ContentDialogue)

\* C29: the content a tick hands to the transport, from the language model or
\* from the fallback renderer, is non-empty and has at most max_message_chars
\* characters: a text longer than the cap is cut to exactly the cap, a text
\* within the cap is sent unchanged.
C29_SentContentWithinCap ==
    (ret.done /\ ret.pc = "send") =>
        /\ ret.value.len \in 1.._settings.max_message_chars
        /\ ContentRawLen > _settings.max_message_chars =>
              ret.value.len = _settings.max_message_chars
        /\ ContentRawLen <= _settings.max_message_chars => ret.value.len = ContentRawLen

\* A completion longer than the cap goes out cut to the cap
C29_Witness ==
    /\ ret.done
    /\ ret.pc = "send"
    /\ ret.value.source = "llm"
    /\ call.completion_len > _settings.max_message_chars
    /\ ret.value.len = _settings.max_message_chars


\* ---- the cooldown across ticks (Spec)
\* C30: when a non-forced tick with timestamp now sends to a stream, every
\* earlier successful proactive send to that stream, forced or not, was made
\* by a tick whose timestamp lies at least cooldown_seconds before now.
C30_CooldownHoldsAcrossTicks ==
    [][\A t \in Tasks :
         (/\ tk[t].pc = "send" /\ ~tk[t].force
          /\ tk'[t] # tk[t] /\ Len(outbox') > Len(outbox))
            => \A i \in DOMAIN outbox :
                  outbox[i].to = CurrentStream(tk[t])
                      => tk[t].now - outbox[i].now >= _settings.cooldown_seconds]_vars


\* ---- unbind during a tick (Spec)
\* C31: whenever a tick hands a proactive message for a stream to the
\* transport, the persisted record of that stream exists and has
\* active = TRUE at that moment.
C31_NoSendToInactiveStream ==
    [][\A t \in Tasks :
         (tk[t].pc # "send" /\ tk'[t].pc = "send")
            => /\ CurrentStream(tk'[t]) \in DOMAIN streamsDoc
               /\ streamsDoc[CurrentStream(tk'[t])].active]_vars

\* ---- every gated stream is sent to (SpecFallback)
\* The skip reasons of the decision gate
GateReasons ==
    {"plugin_disabled", "stream_inactive", "quiet_hours", "cooldown",
     "conversation_active", "random_gate"}

\* C32: in any tick the skip reasons no_topic and empty_content are never
\* recorded; a stream leaves the decision step either with a reason of the
\* decision gate or on its way to the send, and content building always ends
\* in a send attempt with a selected topic and a non-empty content.
C32_GatedStreamReachesSend ==
    /\ [](\A t \in Tasks : \A i \in DOMAIN tk[t].reasons :
              tk[t].reasons[i].reason \notin {"no_topic", "empty_content"})
    /\ [][\A t \in Tasks :
            /\ (tk[t].pc = "gate" /\ tk'[t] # tk[t]) =>
                  \/ /\ Len(tk'[t].reasons) = Len(tk[t].reasons) + 1
                     /\ tk'[t].reasons[Len(tk'[t].reasons)].reason \in GateReasons
                  \/ /\ tk'[t].reasons = tk[t].reasons
                     /\ tk'[t].pc \in {"llm", "send"}
                     /\ tk'[t].selected.found
            /\ (tk[t].pc = "llm" /\ tk'[t] # tk[t]) => tk'[t].pc = "send"
            /\ (tk[t].pc # "send" /\ tk'[t].pc = "send") => tk'[t].content.len > 0]_vars

\* The periodic tick, with no stored topic and the single configured line
\* "|", has passed the gate and is sending a fallback content
C32_Witness ==
    /\ tk[Sched].pc = "send"
    /\ topicsDoc.items = << >>
    /\ config.fallback_topics = << <<Bar>> >>
    /\ tk[Sched].selected.topic_id = NullId
    /\ tk[Sched].content.source = "fallback"

=============================================================================
